---------------------------- MODULE Spec2Model ----------------------------
(***************************************************************************)
(* The three USSD dialog handlers of the repository as one state machine:  *)
(*   G  GatePlus  (src/unnamed/part_000, lines 1-326)                       *)
(*   N  NCSTCS    (src/unnamed/part_000, lines 328-651)                     *)
(*   P  PCRS      (src/unnamed/part_001)                                    *)
(* Every /ussd request is a process.  It runs synchronously up to its next  *)
(* `await'; one action of the model is one such synchronous segment.  The   *)
(* repository operation a segment was waiting for takes effect at the      *)
(* beginning of the segment that follows it.                                *)
(*                                                                         *)
(* JavaScript strings are sequences of one-character strings, so trimming, *)
(* case conversion, the regular expressions and parseFloat are computed.    *)
(* The session store holds REFERENCES to arrays: getSession returns the    *)
(* very array that saveSession stored, so push/pop/index assignment change *)
(* the stored stack in place.  `heap' maps array identities to contents.   *)
(***************************************************************************)
EXTENDS Integers, Sequences, FiniteSets, TLC

-----------------------------------------------------------------------------
(* Characters and JavaScript string primitives                              *)

Digit == {"0", "1", "2", "3", "4", "5", "6", "7", "8", "9"}

LowerSeq == <<"a","b","c","d","e","f","g","h","i","j","k","l","m",
              "n","o","p","q","r","s","t","u","v","w","x","y","z">>

UpperSeq == <<"A","B","C","D","E","F","G","H","I","J","K","L","M",
              "N","O","P","Q","R","S","T","U","V","W","X","Y","Z">>

Lower == {LowerSeq[i] : i \in 1..26}

Upper == {UpperSeq[i] : i \in 1..26}

AlNum == Lower \cup Upper \cup Digit

WhiteSpace == {" ", "\t", "\n"}

\* String.prototype.toUpperCase, one character
UpperOf(c) == IF c \in Lower THEN UpperSeq[CHOOSE i \in 1..26 : LowerSeq[i] = c] ELSE c

\* String.prototype.toUpperCase
ToUpperCase(s) == [i \in 1..Len(s) |-> UpperOf(s[i])]

\* String.prototype.trim
Trim(s) ==
    LET keep == {i \in 1..Len(s) : s[i] \notin WhiteSpace}
        lo == CHOOSE i \in keep : \A j \in keep : i <= j
        hi == CHOOSE i \in keep : \A j \in keep : j <= i
    IN  IF keep = {} THEN <<>> ELSE SubSeq(s, lo, hi)

\* s.slice(from) for 0-based `from'
Slice(s, from) == SubSeq(s, from + 1, Len(s))

\* every character of s[lo..hi] is a decimal digit
AllDigits(s, lo, hi) == \A i \in lo..hi : s[i] \in Digit

\* /\d/.test(s)
HasDigit(s) == \E i \in 1..Len(s) : s[i] \in Digit

\* `undefined': the value of a missing property
Undefined == <<"undefined">>

\* JavaScript truthiness of a string-or-undefined value
Truthy(v) == v # Undefined /\ v # <<>>

\* a || b on string-or-undefined values
OrElse(a, b) == IF Truthy(a) THEN a ELSE b

-----------------------------------------------------------------------------
(* Validator library                                                        *)

\* /^GHA-\d{9}-\d{2}$/i.test(card.trim())
isValidGhanaCard(card) ==
    LET c == Trim(card)
    IN  /\ Len(c) = 16
        /\ ToUpperCase(SubSeq(c, 1, 3)) = <<"G", "H", "A">>
        /\ c[4] = "-"
        /\ AllDigits(c, 5, 13)
        /\ c[14] = "-"
        /\ AllDigits(c, 15, 16)

\* /^[^\s@]+@[^\s@]+\.[^\s@]+$/.test(email.trim())
isValidEmail(email) ==
    LET e == Trim(email)
    IN  \E at \in 2..Len(e) :
          /\ e[at] = "@"
          /\ \A i \in (1..Len(e)) \ {at} : e[i] \notin (WhiteSpace \cup {"@"})
          /\ \E dot \in (at + 2)..(Len(e) - 1) : e[dot] = "."

\* /^[A-Za-z0-9\-]{5,}$/.test(dvla.trim())
isValidDVLA(dvla) ==
    LET d == Trim(dvla)
    IN  /\ Len(d) >= 5
        /\ \A i \in 1..Len(d) : d[i] \in (AlNum \cup {"-"})

\* /^[a-zA-Z0-9_\.\-]{3,20}$/.test(username)
isValidUsername(username) ==
    /\ Len(username) >= 3
    /\ Len(username) <= 20
    /\ \A i \in 1..Len(username) : username[i] \in (AlNum \cup {"_", ".", "-"})

\* /^(?:0|\+?233)\d{9}$/.test(phone.trim())
isValidPhone(phone) ==
    LET p == Trim(phone)
    IN  \/ Len(p) = 10 /\ p[1] = "0" /\ AllDigits(p, 2, 10)
        \/ Len(p) = 12 /\ SubSeq(p, 1, 3) = <<"2", "3", "3">> /\ AllDigits(p, 4, 12)
        \/ Len(p) = 13 /\ SubSeq(p, 1, 4) = <<"+", "2", "3", "3">> /\ AllDigits(p, 5, 13)

\* normalizePhone that only trims
normalizePhoneBare(phone) == Trim(phone)

\* normalizePhone: rewrite an accepted form to +233XXXXXXXXX, else the trimmed input
normalizePhone(phone) ==
    LET p == Trim(phone)
    IN  IF Len(p) = 10 /\ p[1] = "0" /\ AllDigits(p, 2, 10)
          THEN <<"+", "2", "3", "3">> \o Slice(p, 1)
        ELSE IF Len(p) = 12 /\ SubSeq(p, 1, 3) = <<"2", "3", "3">> /\ AllDigits(p, 4, 12)
          THEN <<"+">> \o p
        ELSE p

-----------------------------------------------------------------------------
(* parseFloat.  A JavaScript number is kept as the exact rational num/den   *)
(* (den a power of ten); nan marks NaN and inf an infinity.  The inputs of  *)
(* the model are short, so no rounding to a double takes place.             *)

DigitSeq == <<"0", "1", "2", "3", "4", "5", "6", "7", "8", "9">>

DigitVal(c) == (CHOOSE i \in 1..10 : DigitSeq[i] = c) - 1

RECURSIVE NatOf(_)
\* the value of a (possibly empty) string of decimal digits
NatOf(s) == IF s = <<>> THEN 0
            ELSE 10 * NatOf(SubSeq(s, 1, Len(s) - 1)) + DigitVal(s[Len(s)])

RECURSIVE Pow10(_)
Pow10(n) == IF n = 0 THEN 1 ELSE 10 * Pow10(n - 1)

\* index just after the longest run of digits of s that starts at index from
RunEnd(s, from) ==
    CHOOSE j \in from..(Len(s) + 1) :
        /\ AllDigits(s, from, j - 1)
        /\ (j = Len(s) + 1 \/ s[j] \notin Digit)

NaN == [nan |-> TRUE, inf |-> FALSE, num |-> 0, den |-> 1]

\* a finite number: sign, decimal digits and the count of them after the point,
\* scaled by ten to the power exp
Scaled(neg, digits, fracLen, exp) ==
    IF fracLen - exp >= 0
      THEN [nan |-> FALSE, inf |-> FALSE,
            num |-> (IF neg THEN 0 - NatOf(digits) ELSE NatOf(digits)),
            den |-> Pow10(fracLen - exp)]
    ELSE [nan |-> FALSE, inf |-> FALSE,
          num |-> (IF neg THEN 0 - NatOf(digits) ELSE NatOf(digits)) * Pow10(exp - fracLen),
          den |-> 1]

\* the exponent part of a literal, whose digits run over s[eFrom .. eEnd - 1];
\* an "e" that no digit follows is not part of the literal
ExponentPart(neg, digits, fracLen, s, eNeg, eFrom, eEnd) ==
    IF eEnd > eFrom
      THEN Scaled(neg, digits, fracLen,
                  IF eNeg THEN 0 - NatOf(SubSeq(s, eFrom, eEnd - 1))
                  ELSE NatOf(SubSeq(s, eFrom, eEnd - 1)))
    ELSE Scaled(neg, digits, fracLen, 0)

\* a literal whose mantissa ends just before index fEnd of s
AfterMantissa(neg, digits, fracLen, s, fEnd) ==
    IF digits = <<>> THEN NaN
    ELSE IF fEnd <= Len(s) /\ s[fEnd] \in {"e", "E"}
      THEN IF fEnd + 1 <= Len(s) /\ s[fEnd + 1] \in {"+", "-"}
             THEN ExponentPart(neg, digits, fracLen, s, s[fEnd + 1] = "-",
                               fEnd + 2, RunEnd(s, fEnd + 2))
           ELSE ExponentPart(neg, digits, fracLen, s, FALSE, fEnd + 1, RunEnd(s, fEnd + 1))
    ELSE Scaled(neg, digits, fracLen, 0)

\* a literal whose integer digits end just before iEnd and whose fraction digits
\* end just before fEnd (fEnd = iEnd when there is no point)
Mantissa(neg, s, iEnd, fEnd) ==
    IF fEnd = iEnd
      THEN AfterMantissa(neg, SubSeq(s, 1, iEnd - 1), 0, s, fEnd)
    ELSE AfterMantissa(neg, SubSeq(s, 1, iEnd - 1) \o SubSeq(s, iEnd + 1, fEnd - 1),
                       fEnd - iEnd - 1, s, fEnd)

IntegerPart(neg, s, iEnd) ==
    IF iEnd <= Len(s) /\ s[iEnd] = "."
      THEN Mantissa(neg, s, iEnd, RunEnd(s, iEnd + 1))
    ELSE Mantissa(neg, s, iEnd, iEnd)

StrUnsignedDecimalLiteral(neg, s) ==
    IF Len(s) >= 8 /\ SubSeq(s, 1, 8) = <<"I", "n", "f", "i", "n", "i", "t", "y">>
      THEN [nan |-> FALSE, inf |-> TRUE, num |-> (IF neg THEN 0 - 1 ELSE 1), den |-> 1]
    ELSE IntegerPart(neg, s, RunEnd(s, 1))

StrDecimalLiteral(s) ==
    IF s # <<>> /\ s[1] \in {"+", "-"}
      THEN StrUnsignedDecimalLiteral(s[1] = "-", Tail(s))
    ELSE StrUnsignedDecimalLiteral(FALSE, s)

\* the string without its leading white space
TrimStart(str) ==
    LET skip == {i \in 1..Len(str) : str[i] \notin WhiteSpace}
    IN  IF skip = {} THEN <<>>
        ELSE SubSeq(str, CHOOSE i \in skip : \A j \in skip : i <= j, Len(str))

\* parseFloat(string): the longest prefix of the left-trimmed string that is a
\* decimal literal ([+-] digits [. digits] [e [+-] digits] or [+-] Infinity)
parseFloat(str) == StrDecimalLiteral(TrimStart(str))

\* isNaN(x)
isNaN(x) == x.nan

\* x < n for a number x and an integer n (false for NaN)
NumLess(x, n) == ~x.nan /\ (IF x.inf THEN x.num < 0 ELSE x.num < n * x.den)

\* NumGreater that never holds
NumGreaterNever(x, n) == FALSE

\* x > n for a number x and an integer n (false for NaN)
NumGreater(x, n) == ~x.nan /\ (IF x.inf THEN x.num > 0 ELSE x.num > n * x.den)

\* String(x) for a finite number x >= 0: the shortest decimal rendering
RECURSIVE NatStr(_)
NatStr(n) == IF n < 10 THEN <<DigitSeq[n + 1]>>
             ELSE NatStr(n \div 10) \o <<DigitSeq[(n % 10) + 1]>>

RECURSIVE FracStr(_, _)
\* the digits of r/den after the decimal point, without trailing zeros
FracStr(r, den) == IF r = 0 THEN <<>>
                   ELSE <<DigitSeq[((10 * r) \div den) + 1]>> \o FracStr((10 * r) % den, den)

NumStr(x) ==
    IF x.num % x.den = 0 THEN NatStr(x.num \div x.den)
    ELSE NatStr(x.num \div x.den) \o <<".">> \o FracStr(x.num % x.den, x.den)

-----------------------------------------------------------------------------
(* Bounds of the model and the requests it draws                            *)

\* number of /ussd requests accepted in one behaviour of GatePlus
MaxRequestsG == 3

\* ... of GatePlus when two requests of one session can be in flight
MaxRequestsConcG == 4

\* ... of NCSTCS when requests are served one at a time: a registration (9) and a
\* lookup in a new session (3)
MaxRequestsSeq == 12

\* ... of PCRS when requests are served one at a time: a registration (11) and a
\* lookup in a new session (3)
MaxRequestsSeqP == 14

\* ... of NCSTCS when two requests can be in flight
MaxRequestsConcN == 6

\* ... of PCRS when two requests can be in flight
MaxRequestsConcP == 4

\* ... when two sessions are served one request at a time
MaxRequestsHandover == 4

\* ... when the store holds a stack whose top level the handler has no case for
MaxRequestsDefault == 2

\* ... when two sessions have both reached the last sign-up step
MaxRequestsRace == 3

\* ... when a session stands at the amount step
MaxRequestsAmount == 1

\* length of the amount strings that are enumerated
MaxAmountLen == 3

\* ... when two GatePlus sessions stand at the Ghana Card step
MaxRequestsReg == 3

\* ... when a PCRS session stands at the phone step
MaxRequestsPhone == 1

\* session tokens (sessionID)
Tokens == {"A", "B"}

\* requests that can be in flight at the same time
Slots == {1, 2}

NoRef == 0

\* identities of the arrays that can be alive at once: one per store entry and
\* one per request in flight, and one being allocated
ArrIds == 1..(Cardinality(Tokens) + Cardinality(Slots) + 1)

S_0 == <<"0">>

S_1 == <<"1">>

S_2 == <<"2">>

S_3 == <<"3">>

S_5 == <<"5">>

S_9 == <<"9">>

\* the service code a subscriber dials: userData of a request that opens a session
S_Dial == <<"*", "1", "#">>

S_50 == <<"5", "0">>

S_Name == <<"A", "m", "a", " ", "B">>

S_User == <<"k", "o", "_", "1">>

S_Phone == <<"+", "2", "3", "3", "2", "4", "1", "2", "3", "4", "5", "6", "7">>

S_Email == <<"1", "@", "b", ".", "c">>

S_Pass == <<"p", "@", "s", "s", "1", "!">>

S_Dvla == <<"D", "-", "1", "2", "3">>

S_Card == <<"G", "H", "A", "-", "1", "2", "3", "4", "5", "6", "7", "8", "9", "-", "0", "1">>

\* the card number as a subscriber may type it: mixed case, spaces around it
S_CardTyped == <<" ", "g", "h", "A", "-", "1", "2", "3", "4", "5", "6", "7", "8", "9", "-", "0", "1", " ">>

S_Msisdn1 == <<"0", "2", "4", "1", "2", "3", "4", "5", "6", "7">>

S_Msisdn2 == <<"0", "5", "5", "1", "2", "3", "4", "5", "6", "7">>

\* subscriber numbers carried by the requests
Msisdns == {S_Msisdn1, S_Msisdn2}

\* keystrokes of the GatePlus requests
InputsG == {S_0, S_9, S_1, S_2, S_3, S_5, S_50, S_Name, S_Card}

\* keystrokes of the NCSTCS requests
InputsN == {S_0, S_9, S_1, S_2, S_3, S_Name, S_User, S_Email, S_Pass, S_Dvla, S_CardTyped}

\* keystrokes of the PCRS requests
InputsP == {S_0, S_9, S_1, S_2, S_3, S_Name, S_User, S_Phone, S_Email, S_Pass, S_Dvla,
            S_CardTyped}

-----------------------------------------------------------------------------
(* State                                                                    *)

VARIABLES
    app,      \* which of the three applications this process runs: "G", "N" or "P"
    cache,    \* memory-cache: sessionID -> reference of the stored array, or NoRef
    heap,     \* array identity -> the array's elements (DialogState records)
    users,    \* the User collection, in insertion order; _id is the index
    loans,    \* the Loan collection, in insertion order (GatePlus)
    owner,    \* the subscriber (msisdn) that holds each session token
    conc,     \* how many requests the process serves at the same time
    toks,     \* the session tokens the requests of this behaviour carry
    reqs,     \* the /ussd requests in flight: locals and the await they sit at
    last,     \* the response most recently sent
    nreq,     \* number of requests accepted so far
    budget,   \* number of requests accepted in this behaviour at most
    asked,    \* history: number of requests accepted so far, per session token
    usersAtStart  \* history: the User collection as the process found it

vars == <<app, owner, conc, toks, budget, cache, heap, users, loans, reqs, last, nreq,
          asked, usersAtStart>>

\* a message: its fixed text and the values interpolated into it
Msg(text) == [text |-> text, args |-> <<>>]

MsgA(text, args) == [text |-> text, args |-> args]

\* obj.k, `undefined' when the property is missing
Get(obj, k) == IF k \in DOMAIN obj THEN obj[k] ELSE Undefined

\* obj.k as a condition: a missing property is falsy
Flag(obj, k) == IF k \in DOMAIN obj THEN obj[k] ELSE FALSE

\* { ...a, ...b }
Spread(a, b) == [k \in (DOMAIN a) \cup (DOMAIN b) |-> IF k \in DOMAIN b THEN b[k] ELSE a[k]]

\* arr[arr.length - 1]
Top(arr) == arr[Len(arr)]

NoState == [level |-> 0 - 1]

\* a request slot with no request in it.  put is history: the tokens whose entry
\* the request has written with cache.put in the segments it has run so far
IdleReq ==
    [pc |-> "idle", sessionID |-> "", newSession |-> FALSE, msisdn |-> <<>>,
     userData |-> <<>>, userSession |-> NoRef, current |-> NoState,
     val |-> <<>>, uid |-> 0, ustatus |-> "", put |-> {}]

\* req.body of a request that has just arrived, with the result of getSession
NewReq(sid, ns, m, d, ref) ==
    [pc |-> "begin", sessionID |-> sid, newSession |-> ns, msisdn |-> m,
     userData |-> d, userSession |-> ref, current |-> NoState,
     val |-> <<>>, uid |-> 0, ustatus |-> "", put |-> {}]

NoResponse ==
    [sessionID |-> "", newSession |-> FALSE, userData |-> <<>>, level |-> 0 - 1,
     message |-> Msg(""), continueSession |-> FALSE, kind |-> "none", status |-> 0,
     put |-> {}, rejected |-> FALSE]

\* respond(res, {sessionID, userID, message, continueSession, msisdn}), kept with
\* the request it answers: kind names the branch of the handler that sent it, level
\* is the level on top of the stack the request read (-1 when it read none), put
\* the tokens whose entry the request wrote with cache.put, rejected whether the
\* repository call that the answering segment had awaited was rejected
Response(q, message, continueSession, kind) ==
    [sessionID |-> q.sessionID, newSession |-> q.newSession, userData |-> q.userData,
     level |-> q.current.level, message |-> message,
     continueSession |-> continueSession, kind |-> kind, status |-> 200,
     put |-> q.put, rejected |-> FALSE]

\* a rejected promise that no try block of the handler catches: express answers
\* 500 and no {message, continueSession} body is sent
Unhandled(q) ==
    [sessionID |-> q.sessionID, newSession |-> q.newSession, userData |-> q.userData,
     level |-> q.current.level, message |-> Msg(""),
     continueSession |-> FALSE, kind |-> "unhandled", status |-> 500,
     put |-> q.put, rejected |-> FALSE]

\* the part of the state a handler segment reads and writes; put collects the
\* tokens the segment calls cache.put for
World == [cache |-> cache, heap |-> heap, users |-> users, loans |-> loans, put |-> {}]

\* a segment that ends the request with a response
Done(S, resp) == [S |-> S, req |-> IdleReq, resp |-> resp]

\* a segment that ends at an await
Await(S, q, pc) ==
    [S |-> S, req |-> [q EXCEPT !.pc = pc, !.put = @ \cup S.put], resp |-> NoResponse]

\* the array references that are alive
Refs(c, q) == ({c[t] : t \in Tokens} \cup {q[r].userSession : r \in Slots}) \ {NoRef}

\* the identity given to the next array literal
NewRef(S) ==
    LET free == ArrIds \ Refs(S.cache, reqs)
    IN  CHOOSE i \in free : \A j \in free : i <= j

\* arrays nothing refers to are garbage: their contents are dropped
Gc(h, c, q) == [i \in ArrIds |-> IF i \in Refs(c, q) THEN h[i] ELSE <<>>]

\* cache.get(sessionID)
getSession(S, sessionID) == S.cache[sessionID]

\* cache.put(sessionID, data, 1000 * 60 * 15): the entry refers to the array
saveSession(S, sessionID, ref) ==
    [S EXCEPT !.cache[sessionID] = ref, !.put = @ \cup {sessionID}]

\* cacheDel that empties the store: cache.clear()
cacheClear(S, sessionID) == [S EXCEPT !.cache = [t \in Tokens |-> NoRef]]

\* cache.del(sessionID)
cacheDel(S, sessionID) == [S EXCEPT !.cache[sessionID] = NoRef]

\* userSession.push(entry)
Push(S, ref, entry) == [S EXCEPT !.heap[ref] = Append(@, entry)]

\* userSession.pop()
Pop(S, ref) == [S EXCEPT !.heap[ref] = SubSeq(@, 1, Len(@) - 1)]

\* userSession[userSession.length - 1] = entry
\* (on an empty array this sets the property "-1", which is no element)
SetTop(S, ref, entry) ==
    IF Len(S.heap[ref]) = 0 THEN S
    ELSE [S EXCEPT !.heap[ref] = [@ EXCEPT ![Len(@)] = entry]]

\* userSession = [entry]: a new array
NewArray(S, ref, entry) == [S EXCEPT !.heap[ref] = <<entry>>]

\* the state after a segment of the request in slot r; rejected tells whether the
\* repository call the segment had awaited was rejected
Step(r, out, rejected) ==
    /\ reqs' = [reqs EXCEPT ![r] = out.req]
    /\ cache' = out.S.cache
    /\ heap' = Gc(out.S.heap, out.S.cache, [reqs EXCEPT ![r] = out.req])
    /\ users' = out.S.users
    /\ loans' = out.S.loans
    /\ last' = IF out.resp.kind = "none" THEN last
               ELSE [out.resp EXCEPT !.put = @ \cup out.S.put, !.rejected = rejected]
    /\ UNCHANGED <<app, owner, conc, toks, budget, usersAtStart>>

\* the first segment of a request: it has awaited nothing
Apply(r, out) == Step(r, out, FALSE)

\* a segment that follows an await: the awaited call was fulfilled (ok) or rejected
Resume(r, ok, out) == Step(r, out, ~ok) /\ UNCHANGED <<nreq, asked>>

-----------------------------------------------------------------------------
(* GatePlus (src/unnamed/part_000, lines 1-326)                             *)

S_Unknown == <<"U", "n", "k", "n", "o", "w", "n">>

S_LOAN_PENDING == <<"L", "O", "A", "N", "_", "P", "E", "N", "D", "I", "N", "G">>

S_DISBURSED == <<"D", "I", "S", "B", "U", "R", "S", "E", "D">>

S_REJECTED == <<"R", "E", "J", "E", "C", "T", "E", "D">>

G_Welcome == Msg("Welcome to GatePlus!\nRegister for verification to access loans.\nEnter your Full Name:")

G_Menu == Msg("Hi there!\n1. Apply for Loan\n2. Check Status\n3. Support")

G_Expired == Msg("Session expired. Please restart.")

G_Unavailable == Msg("Service temporarily unavailable. Try later.")

G_AmountRange == Msg("Enter amount between GHS 10 and 1000:")

\* User.findOne({msisdn}): the _id of the first match, 0 for null
G_findUser(S, msisdn) ==
    LET hit == {i \in 1..Len(S.users) : S.users[i].msisdn = msisdn}
    IN  IF hit = {} THEN 0 ELSE CHOOSE i \in hit : \A j \in hit : i <= j

\* Loan.findOne({msisdn}).sort({requestedAt: -1}): the newest match, 0 for null
G_latestLoan(S, msisdn) ==
    LET hit == {i \in 1..Len(S.loans) : S.loans[i].msisdn = msisdn}
    IN  IF hit = {} THEN 0 ELSE CHOOSE i \in hit : \A j \in hit : j <= i

\* logActivity: ActivityLog.create({msisdn, action, details}).  No handler reads
\* the ActivityLog collection, so its contents are not part of the state: the
\* call is an await that succeeds or fails
logActivity(S, msisdn, action) == S

\* G_userAccepted of a schema whose msisdn is not unique
G_userAcceptedNoIndex(S, u) ==
    /\ Truthy(u.fullName)
    /\ Truthy(u.msisdn)
    /\ Trim(u.ghanaCard) = u.ghanaCard
    /\ isValidGhanaCard(u.ghanaCard)

\* userSchema of GatePlus: the required fields, the ghanaCard pattern (matched
\* without trimming) and the unique index on msisdn
G_userAccepted(S, u) ==
    /\ Truthy(u.fullName)
    /\ Truthy(u.msisdn)
    /\ Trim(u.ghanaCard) = u.ghanaCard
    /\ isValidGhanaCard(u.ghanaCard)
    /\ \A i \in 1..Len(S.users) : S.users[i].msisdn # u.msisdn

\* loanSchema: amount is a number with min 10 and max 1000
G_loanAccepted(l) == ~isNaN(l.amount) /\ ~NumLess(l.amount, 10) /\ ~NumGreater(l.amount, 1000)

\* the catch block of the handler
G_Catch(S, q) == Done(cacheDel(S, q.sessionID), Response(q, G_Unavailable, FALSE, "fail"))

\* case 10: the full name
G_Case10(S, q) ==
    LET fullName == Trim(q.userData)
        message == Msg("Enter Ghana Card (e.g., GHA-123456789-01):")
        pushed == Push(S, q.userSession, [level |-> 11, message |-> message, fullName |-> fullName])
    IN  IF Len(fullName) < 2 \/ HasDigit(fullName)
          THEN Done(S, Response(q, Msg("Please enter a valid name (no numbers)."), TRUE, "invalid"))
        ELSE Done(saveSession(pushed, q.sessionID, q.userSession), Response(q, message, TRUE, "advance"))

\* userSession.find(s => s.level === 10)?.fullName || "Unknown"
G_fullNameOf(arr) ==
    LET hit == {i \in 1..Len(arr) : arr[i].level = 10}
        previousState == arr[CHOOSE i \in hit : \A j \in hit : i <= j]
    IN  IF hit = {} THEN S_Unknown ELSE OrElse(Get(previousState, "fullName"), S_Unknown)

\* case 11 up to `await User.findOne({msisdn})'
G_Case11(S, q) ==
    LET ghanaCard == ToUpperCase(Trim(q.userData))
        message == Msg("Invalid format. Use GHA-XXXXXXXXX-XX:")
        retry == Spread(q.current, [message |-> message])
        replaced == SetTop(S, q.userSession, retry)
    IN  IF ~isValidGhanaCard(ghanaCard)
          THEN Done(saveSession(replaced, q.sessionID, q.userSession), Response(q, message, TRUE, "invalid"))
        ELSE Await(S, [q EXCEPT !.val = G_fullNameOf(S.heap[q.userSession])], "g11_find")

\* the handler from its entry to its first await or response
G_Begin(S, q) ==
    LET arr == S.heap[q.userSession]
        q1 == [q EXCEPT !.current = Top(arr)]
    IN  IF q.newSession
          THEN Await(S, [q EXCEPT !.userSession = NoRef], "g_new_find")
        ELSE IF q.userSession = NoRef \/ Len(arr) = 0
          THEN Done(S, Response(q, G_Expired, FALSE, "expired"))
        ELSE IF q1.current.level >= 10 /\ q1.current.level < 20
          THEN CASE q1.current.level = 10 -> G_Case10(S, q1)
                 [] q1.current.level = 11 -> G_Case11(S, q1)
                 [] OTHER -> Done(S, Response(q1, Msg(""), TRUE, "noop"))
        ELSE Await(S, q1, "g_menu_find")

\* newSession: after `await User.findOne({msisdn})', up to `await logActivity'
G_NewAfterFind(S, q, ok) ==
    LET userRecord == G_findUser(S, q.msisdn)
        message == IF userRecord = 0 THEN G_Welcome ELSE G_Menu
        newState == [sessionID |-> q.sessionID, msisdn |-> q.msisdn,
                     level |-> IF userRecord # 0 THEN 1 ELSE 10, message |-> message]
        ref == NewRef(S)
        saved == saveSession(NewArray(S, ref, newState), q.sessionID, ref)
    IN  IF ~ok THEN Done(S, Unhandled(q))
        ELSE Await(saved, [q EXCEPT !.uid = userRecord], "g_new_log")

\* newSession: after `await logActivity(msisdn, 'session_start', ...)'
G_NewAfterLog(S, q, ok) ==
    IF ~ok THEN Done(S, Unhandled(q))
    ELSE Done(logActivity(S, q.msisdn, "session_start"),
              Response(q, IF q.uid = 0 THEN G_Welcome ELSE G_Menu, TRUE, "start"))

\* case 11: after `await User.findOne({msisdn})', up to `await newUser.save()'
G_RegAfterFind(S, q, ok) ==
    LET existingUser == G_findUser(S, q.msisdn)
    IN  IF ~ok THEN G_Catch(S, q)
        ELSE IF existingUser # 0
          THEN Done(cacheDel(S, q.sessionID), Response(q, Msg("You are already registered."), FALSE, "already"))
        ELSE Await(S, q, "g11_save")

\* G_RegAfterSave that stores the new record as verified
G_RegAfterSaveVerified(S, q, ok) ==
    LET newUser == [fullName |-> q.val, ghanaCard |-> ToUpperCase(Trim(q.userData)),
                    msisdn |-> q.msisdn, status |-> "verified", verified |-> TRUE]
    IN  IF ~ok \/ ~G_userAccepted(S, newUser) THEN G_Catch(S, q)
        ELSE Await([S EXCEPT !.users = Append(@, newUser)], q, "g11_log")

\* case 11: after `await newUser.save()', up to `await logActivity'
G_RegAfterSave(S, q, ok) ==
    LET newUser == [fullName |-> q.val, ghanaCard |-> ToUpperCase(Trim(q.userData)),
                    msisdn |-> q.msisdn, status |-> "pending_verification", verified |-> FALSE]
    IN  IF ~ok \/ ~G_userAccepted(S, newUser) THEN G_Catch(S, q)
        ELSE Await([S EXCEPT !.users = Append(@, newUser)], q, "g11_log")

\* case 11: after `await logActivity(msisdn, 'register', ...)'
G_RegAfterLog(S, q, ok) ==
    IF ~ok THEN G_Catch(S, q)
    ELSE Done(cacheDel(logActivity(S, q.msisdn, "register"), q.sessionID),
              Response(q, MsgA("Thank you, {0}!\nVerification pending. You'll be notified.", <<q.val>>),
                       FALSE, "success"))

\* existing-user flow: after `await User.findOne({msisdn})', up to `await logActivity'
G_MenuAfterFind(S, q, ok) ==
    LET userRecord == G_findUser(S, q.msisdn)
    IN  IF ~ok THEN G_Catch(S, q)
        ELSE IF userRecord = 0
          THEN Done(S, Response(q, Msg("User not found. Please restart."), FALSE, "notfound"))
        ELSE Await(S, [q EXCEPT !.uid = userRecord, !.ustatus = S.users[userRecord].status], "g_menu_log")

\* G_Case1 without the test of the status: option 1 always leads to the amount step
G_Case1NoReview(S, q) ==
    LET message == Msg("Enter loan amount (GHS 10 - 1000):")
        pushed == Push(S, q.userSession, [level |-> 2, message |-> message])
    IN  IF q.userData = S_1
          THEN Done(saveSession(pushed, q.sessionID, q.userSession), Response(q, message, TRUE, "advance"))
        ELSE IF q.userData = S_2
          THEN Await(S, q, "g_status_find")
        ELSE IF q.userData = S_3
          THEN Done(S, Response(q, Msg("Support: Call 0800-GATEPLUS or WhatsApp +233 123 456 789"), FALSE, "neutral"))
        ELSE Done(S, Response(q, Msg("Invalid option. Choose 1, 2, or 3."), FALSE, "neutral"))

\* case 1: the home menu of a registered subscriber
G_Case1(S, q) ==
    LET message == Msg("Enter loan amount (GHS 10 - 1000):")
        pushed == Push(S, q.userSession, [level |-> 2, message |-> message])
    IN  IF q.userData = S_1
          THEN IF q.ustatus # "verified"
                 THEN Done(S, Response(q, Msg("Account under review. Please wait for approval."), FALSE, "neutral"))
               ELSE Done(saveSession(pushed, q.sessionID, q.userSession), Response(q, message, TRUE, "advance"))
        ELSE IF q.userData = S_2
          THEN Await(S, q, "g_status_find")
        ELSE IF q.userData = S_3
          THEN Done(S, Response(q, Msg("Support: Call 0800-GATEPLUS or WhatsApp +233 123 456 789"), FALSE, "neutral"))
        ELSE Done(S, Response(q, Msg("Invalid option. Choose 1, 2, or 3."), FALSE, "neutral"))

\* G_Case2 that pushes the range-error entry instead of replacing the top
G_Case2Push(S, q) ==
    LET amount == parseFloat(q.userData)
        retry == Spread(q.current, [message |-> G_AmountRange])
        pushed == Push(S, q.userSession, retry)
    IN  IF isNaN(amount) \/ NumLess(amount, 10) \/ NumGreater(amount, 1000)
          THEN Done(saveSession(pushed, q.sessionID, q.userSession), Response(q, G_AmountRange, TRUE, "invalid"))
        ELSE Await(S, q, "g2_save")

\* case 2: the loan amount, up to `await loan.save()'
G_Case2(S, q) ==
    LET amount == parseFloat(q.userData)
        retry == Spread(q.current, [message |-> G_AmountRange])
        replaced == SetTop(S, q.userSession, retry)
    IN  IF isNaN(amount) \/ NumLess(amount, 10) \/ NumGreater(amount, 1000)
          THEN Done(saveSession(replaced, q.sessionID, q.userSession), Response(q, G_AmountRange, TRUE, "invalid"))
        ELSE Await(S, q, "g2_save")

\* existing-user flow: after `await logActivity(msisdn, 'menu', ...)', the switch
G_MenuAfterLog(S, q, ok) ==
    LET S1 == logActivity(S, q.msisdn, "menu")
    IN  IF ~ok THEN G_Catch(S, q)
        ELSE CASE q.current.level = 1 -> G_Case1(S1, q)
               [] q.current.level = 2 -> G_Case2(S1, q)
               [] OTHER -> Done(S1, Response(q, Msg("An error occurred."), FALSE, "neutral"))

\* the three values of the status enum of loanSchema, upper-cased
G_StatusUpper(status) ==
    CASE status = "loan_pending" -> S_LOAN_PENDING
      [] status = "disbursed" -> S_DISBURSED
      [] OTHER -> S_REJECTED

\* case 1, option 2: after `await Loan.findOne({msisdn}).sort(...)'
G_StatusAfterFind(S, q, ok) ==
    LET latestLoan == G_latestLoan(S, q.msisdn)
        loan == S.loans[latestLoan]
    IN  IF ~ok THEN G_Catch(S, q)
        ELSE IF latestLoan = 0
          THEN Done(S, Response(q, Msg("No loan history."), FALSE, "neutral"))
        ELSE Done(S, Response(q, MsgA("Status: {0}\nAmount: GHS {1}\nApplied: {date}",
                                      <<G_StatusUpper(loan.status), NumStr(loan.amount)>>),
                              FALSE, "neutral"))

\* case 2: after `await loan.save()', up to `await logActivity'
G_LoanAfterSave(S, q, ok) ==
    LET loan == [userId |-> q.uid, msisdn |-> q.msisdn,
                 amount |-> parseFloat(q.userData), status |-> "loan_pending"]
    IN  IF ~ok \/ ~G_loanAccepted(loan) THEN G_Catch(S, q)
        ELSE Await([S EXCEPT !.loans = Append(@, loan)], q, "g2_log")

\* case 2: after `await logActivity(msisdn, 'loan_request', ...)'
G_LoanAfterLog(S, q, ok) ==
    IF ~ok THEN G_Catch(S, q)
    ELSE Done(cacheDel(logActivity(S, q.msisdn, "loan_request"), q.sessionID),
              Response(q, MsgA("Loan request for GHS {0} received!\nProcessing... Funds will be sent shortly.",
                               <<NumStr(parseFloat(q.userData))>>),
                       FALSE, "success"))

\* GET /admin/approve/:msisdn
G_Approve(S, msisdn) ==
    LET user == G_findUser(S, msisdn)
        saved == [S EXCEPT !.users[user] = [@ EXCEPT !.status = "verified", !.verified = TRUE]]
    IN  IF user = 0 THEN S ELSE logActivity(saved, msisdn, "admin_action")

-----------------------------------------------------------------------------
(* NCSTCS (src/unnamed/part_000, lines 328-651)                             *)

S_Dash == <<"-">>

\* bcrypt.hash(password, 10): a salted digest, never the password itself
bcryptHash(password) == <<"$", "2", "a", "$", "1", "0", "$">> \o password

N_Home == Msg("NCSTCS Couriers\n1. Sign Up\n2. Lookup Courier\n3. Cancel")

N_Unavailable == Msg("Service temporarily unavailable. Try later.")

\* User.findOne({[field]: value}): the _id of the first match, 0 for null
findOneBy(S, field, value) ==
    LET hit == {i \in 1..Len(S.users) : Get(S.users[i], field) = value}
    IN  IF hit = {} THEN 0 ELSE CHOOSE i \in hit : \A j \in hit : i <= j

\* the outer catch block
N_Catch(S, q) == Done(cacheDel(S, q.sessionID), Response(q, N_Unavailable, FALSE, "fail"))

\* reply(message): saveSession(sessionID, userSession), then respond
N_Reply(S, q, message, kind) ==
    Done(saveSession(S, q.sessionID, q.userSession), Response(q, message, TRUE, kind))

\* userSession[userSession.length - 1] = { ...current, message }; return reply(message)
N_Retry(S, q, text, kind) ==
    N_Reply(SetTop(S, q.userSession, Spread(q.current, [message |-> Msg(text)])), q, Msg(text), kind)

\* N_Advance that also saves the fields captured so far as a draft record
N_AdvanceSaving(S, q, entry) ==
    N_Reply(Push([S EXCEPT !.users = Append(@, entry)], q.userSession, entry), q, entry.message, "advance")

\* userSession.push(entry); return reply(message)
N_Advance(S, q, entry) == N_Reply(Push(S, q.userSession, entry), q, entry.message, "advance")

\* N_Reset with the array literal left empty: userSession = []
N_ResetEmpty(S, q, kind) ==
    LET ref == NewRef(S)
    IN  N_Reply([S EXCEPT !.heap[ref] = <<>>], [q EXCEPT !.userSession = ref], N_Home, kind)

\* userSession = [{ level: 0, message }]; return reply(message)
N_Reset(S, q, kind) ==
    LET ref == NewRef(S)
    IN  N_Reply(NewArray(S, ref, [level |-> 0, message |-> N_Home]), [q EXCEPT !.userSession = ref], N_Home, kind)

\* cache.del(sessionID); respond with continueSession false
N_End(S, q, message, kind) == Done(cacheDel(S, q.sessionID), Response(q, message, FALSE, kind))

\* N_Back without the length test: it pops the bottom entry too, and replies the
\* home menu when nothing is left
N_BackAlways(S, q) ==
    LET popped == IF Len(S.heap[q.userSession]) >= 1 THEN Pop(S, q.userSession) ELSE S
        arr == popped.heap[q.userSession]
    IN  N_Reply(popped, q, IF Len(arr) = 0 THEN N_Home ELSE Top(arr).message, "back")

\* if (userData === "9"): pop unless at the bottom, reply the message now on top
N_Back(S, q) ==
    LET popped == IF Len(S.heap[q.userSession]) > 1 THEN Pop(S, q.userSession) ELSE S
        prev == Top(popped.heap[q.userSession])
    IN  IF Len(popped.heap[q.userSession]) = 0 THEN Done(S, Unhandled(q))
        ELSE N_Reply(popped, q, prev.message, "back")

\* case 0: the home menu
N_Case0(S, q) ==
    IF q.userData = S_1
      THEN N_Advance(S, q, [level |-> 10, message |-> Msg("Enter Full Name:")])
    ELSE IF q.userData = S_2
      THEN N_Advance(S, q, [level |-> 30, message |-> Msg("Enter DVLA or Ghana Card Number:")])
    ELSE N_End(S, q, Msg("Session ended."), "neutral")

\* case 10: full name
N_Case10(S, q) ==
    LET name == Trim(q.userData)
    IN  IF name = <<>> \/ Len(name) < 3 \/ HasDigit(name)
          THEN N_Retry(S, q, "Invalid name. Enter Full Name:", "invalid")
        ELSE N_Advance(S, q, [level |-> 11, name |-> name, message |-> Msg("Choose a Username:")])

\* case 11: username, up to `await User.findOne({ username })'
N_Case11(S, q) ==
    LET username == Trim(q.userData)
    IN  IF ~isValidUsername(username)
          THEN N_Retry(S, q, "Invalid username. Try again:", "invalid")
        ELSE Await(S, [q EXCEPT !.val = username], "n11_find")

\* case 11 after the await
N_UsernameAfterFind(S, q, ok) ==
    IF ~ok THEN N_Catch(S, q)
    ELSE IF findOneBy(S, "username", q.val) # 0
      THEN N_Retry(S, q, "Username taken. Enter a different Username:", "conflict")
    ELSE N_Advance(S, q, [level |-> 12, name |-> Get(q.current, "name"), username |-> q.val,
                          message |-> Msg("Enter Email:")])

\* case 12: email, up to `await User.findOne({ email })'
N_Case12(S, q) ==
    LET email == Trim(q.userData)
    IN  IF ~isValidEmail(email)
          THEN N_Retry(S, q, "Invalid email. Enter Email:", "invalid")
        ELSE Await(S, [q EXCEPT !.val = email], "n12_find")

\* case 12 after the await
N_EmailAfterFind(S, q, ok) ==
    IF ~ok THEN N_Catch(S, q)
    ELSE IF findOneBy(S, "email", q.val) # 0
      THEN N_Retry(S, q, "Email already in use. Enter a different Email:", "conflict")
    ELSE N_Advance(S, q, [level |-> 13, name |-> Get(q.current, "name"),
                          username |-> Get(q.current, "username"), email |-> q.val,
                          message |-> Msg("Create Password:")])

\* case 13: password
N_Case13(S, q) ==
    LET password == Trim(q.userData)
    IN  IF Len(password) < 6
          THEN N_Retry(S, q, "Password too short (min 6). Create Password:", "invalid")
        ELSE N_Advance(S, q, Spread(q.current, [level |-> 14, password |-> password,
                                                message |-> Msg("Confirm Password:")]))

\* N_Mismatch that writes a bare entry of the level below instead of a copy of it
N_MismatchBare(S, q) ==
    LET message == Msg("Passwords do not match. Create Password:")
        popped == Pop(S, q.userSession)
        arr == popped.heap[q.userSession]
        below == IF Len(arr) = 0 THEN [message |-> message]
                 ELSE [level |-> Top(arr).level, message |-> message]
    IN  N_Reply(SetTop(popped, q.userSession, below), q, message, "mismatch")

\* the mismatch branch of the confirm step: userSession.pop(), then the entry now
\* on top gets the message
N_Mismatch(S, q) ==
    LET message == Msg("Passwords do not match. Create Password:")
        popped == Pop(S, q.userSession)
        arr == popped.heap[q.userSession]
        below == IF Len(arr) = 0 THEN [message |-> message] ELSE Spread(Top(arr), [message |-> message])
    IN  N_Reply(SetTop(popped, q.userSession, below), q, message, "mismatch")

\* case 14: confirm password
N_Case14(S, q) ==
    LET confirm == Trim(q.userData)
    IN  IF confirm # Get(q.current, "password")
          THEN N_Mismatch(S, q)
        ELSE N_Advance(S, q, Spread(q.current, [level |-> 15, message |-> Msg("Enter DVLA License Number:")]))

\* case 15: DVLA number, up to `await User.findOne({ dvlaNumber })'
N_Case15(S, q) ==
    LET dvlaNumber == ToUpperCase(Trim(q.userData))
    IN  IF ~isValidDVLA(dvlaNumber)
          THEN N_Retry(S, q, "Invalid DVLA number. Enter DVLA License Number:", "invalid")
        ELSE Await(S, [q EXCEPT !.val = dvlaNumber], "n15_find")

\* case 15 after the await
N_DvlaAfterFind(S, q, ok) ==
    IF ~ok THEN N_Catch(S, q)
    ELSE IF findOneBy(S, "dvlaNumber", q.val) # 0
      THEN N_Retry(S, q, "DVLA already registered. Enter a different DVLA License Number:", "conflict")
    ELSE N_Advance(S, q, Spread(q.current, [level |-> 16, dvlaNumber |-> q.val,
                                            message |-> Msg("Enter Ghana Card (e.g., GHA-123456789-01):")]))

\* case 16: Ghana Card number, up to `await User.findOne({ ghanaCardNumber })'
N_Case16(S, q) ==
    LET ghanaCardNumber == ToUpperCase(Trim(q.userData))
    IN  IF ~isValidGhanaCard(ghanaCardNumber)
          THEN N_Retry(S, q, "Invalid format. Use GHA-XXXXXXXXX-XX:", "invalid")
        ELSE Await(S, [q EXCEPT !.val = ghanaCardNumber], "n16_find")

\* case 16 after the await, up to `await User.create'.  bcrypt.hash touches neither
\* the store nor the repository, so its await is not a segment of its own; it throws
\* on an undefined password
N_CardAfterFind(S, q, ok) ==
    IF ~ok THEN N_Catch(S, q)
    ELSE IF findOneBy(S, "ghanaCardNumber", q.val) # 0
      THEN N_Retry(S, q, "Ghana Card already registered. Enter a different Ghana Card:", "conflict")
    ELSE IF Get(q.current, "password") = Undefined
      THEN N_Catch(S, q)
    ELSE Await(S, q, "n16_create")

\* the fields a unique index of the NCSTCS userSchema covers
N_UniqueFields == {"username", "email", "dvlaNumber", "ghanaCardNumber"}

\* N_userAccepted of a schema without unique indexes
N_userAcceptedNoIndex(S, u) == Truthy(u.username) /\ Truthy(u.password)

\* userSchema: username and password are required; the unique indexes (sparse ones
\* skip documents without the field)
N_userAccepted(S, u) ==
    /\ Truthy(u.username)
    /\ Truthy(u.password)
    /\ \A f \in N_UniqueFields :
          u[f] # Undefined => \A i \in 1..Len(S.users) : Get(S.users[i], f) # u[f]

\* case 16 after `await User.create({...})'
N_AfterCreate(S, q, ok) ==
    LET doc == [username |-> Get(q.current, "username"),
                password |-> bcryptHash(Get(q.current, "password")),
                role |-> "courier",
                name |-> Get(q.current, "name"),
                email |-> Get(q.current, "email"),
                dvlaNumber |-> Get(q.current, "dvlaNumber"),
                ghanaCardNumber |-> q.val]
    IN  IF ~ok \/ ~N_userAccepted(S, doc)
          THEN N_End(S, q, Msg("Registration failed. Try again later."), "createfail")
        ELSE N_End([S EXCEPT !.users = Append(@, doc)], q, Msg("Registration successful!"), "success")

\* case 30 after `await User.findOne(...)': lookup by Ghana Card, else by DVLA number
N_LookupAfterFind(S, q, ok) ==
    LET query == ToUpperCase(Trim(q.userData))
        user == IF isValidGhanaCard(query) THEN findOneBy(S, "ghanaCardNumber", query)
                ELSE findOneBy(S, "dvlaNumber", query)
        u == S.users[user]
        summary == MsgA("Name: {0}\nUsername: {1}\nEmail: {2}\nDVLA: {3}\nGhanaCard: {4}",
                        <<OrElse(Get(u, "name"), S_Dash), u.username, OrElse(Get(u, "email"), S_Dash),
                          OrElse(Get(u, "dvlaNumber"), S_Dash), OrElse(Get(u, "ghanaCardNumber"), S_Dash)>>)
    IN  IF ~ok THEN N_Catch(S, q)
        ELSE IF user = 0 THEN N_Retry(S, q, "Courier not found. 9.Back 0.Home", "notfound")
        ELSE N_End(S, q, summary, "found")

\* the handler from its entry to its first await or response
N_Begin(S, q) ==
    LET q1 == [q EXCEPT !.current = Top(S.heap[q.userSession])]
        level == q1.current.level
    IN  IF q.newSession \/ q.userSession = NoRef THEN N_Reset(S, q, "start")
        ELSE IF q.userData = S_0 THEN N_Reset(S, q1, "home")
        ELSE IF q.userData = S_9 THEN N_Back(S, q1)
        ELSE CASE level = 0 -> N_Case0(S, q1)
               [] level = 10 -> N_Case10(S, q1)
               [] level = 11 -> N_Case11(S, q1)
               [] level = 12 -> N_Case12(S, q1)
               [] level = 13 -> N_Case13(S, q1)
               [] level = 14 -> N_Case14(S, q1)
               [] level = 15 -> N_Case15(S, q1)
               [] level = 16 -> N_Case16(S, q1)
               [] level = 30 -> Await(S, q1, "n30_find")
               [] OTHER -> N_Reset(S, q1, "reset")

-----------------------------------------------------------------------------
(* PCRS (src/unnamed/part_001)                                              *)

S_Courier == <<"C", "o", "u", "r", "i", "e", "r">>

P_Home == Msg("PCRS Couriers\n1. Sign Up\n2. Lookup Courier\n3. Cancel")

P_Unavailable == Msg("Service temporarily unavailable. Try later.")

\* `Hi ${displayName}\n1. View My Details\n2. Lookup Courier\n3. Cancel`
P_HomeOf(displayName) == MsgA("Hi {0}\n1. View My Details\n2. Lookup Courier\n3. Cancel", <<displayName>>)

\* User.findById(id): the user, or 0 for null
findById(S, id) == IF id \in 1..Len(S.users) THEN id ELSE 0

\* me?.name || me?.username || me?.phone || "Courier"
P_displayName(S, me) ==
    IF me = 0 THEN S_Courier
    ELSE OrElse(Get(S.users[me], "name"),
                OrElse(Get(S.users[me], "username"), OrElse(Get(S.users[me], "phone"), S_Courier)))

\* the outer catch block
P_Catch(S, q) == Done(cacheDel(S, q.sessionID), Response(q, P_Unavailable, FALSE, "fail"))

\* reply(message): saveSession(sessionID, userSession), then respond
P_Reply(S, q, message, kind) ==
    Done(saveSession(S, q.sessionID, q.userSession), Response(q, message, TRUE, kind))

\* P_Retry that pushes the entry with the new message instead of replacing the top
P_RetryPush(S, q, text, kind) ==
    P_Reply(Push(S, q.userSession, Spread(q.current, [message |-> Msg(text)])), q, Msg(text), kind)

\* userSession[userSession.length - 1] = { ...current, message }; return reply(message)
P_Retry(S, q, text, kind) ==
    P_Reply(SetTop(S, q.userSession, Spread(q.current, [message |-> Msg(text)])), q, Msg(text), kind)

\* P_Advance that puts the entry in the place of the top instead of pushing it
P_AdvanceInPlace(S, q, entry) == P_Reply(SetTop(S, q.userSession, entry), q, entry.message, "advance")

\* userSession.push(entry); return reply(message)
P_Advance(S, q, entry) == P_Reply(Push(S, q.userSession, entry), q, entry.message, "advance")

\* P_Restart that pushes the entry on the array of a live session instead of
\* starting a new array
P_RestartPush(S, q, entry, kind) ==
    LET ref == NewRef(S)
    IN  IF q.userSession = NoRef
          THEN P_Reply(NewArray(S, ref, entry), [q EXCEPT !.userSession = ref], entry.message, kind)
        ELSE P_Reply(Push(S, q.userSession, entry), q, entry.message, kind)

\* userSession = [entry]; saveSession; respond with continueSession true
P_Restart(S, q, entry, kind) ==
    LET ref == NewRef(S)
    IN  P_Reply(NewArray(S, ref, entry), [q EXCEPT !.userSession = ref], entry.message, kind)

\* cache.del(sessionID); respond with continueSession false
P_End(S, q, message, kind) == Done(cacheDel(S, q.sessionID), Response(q, message, FALSE, kind))

\* start or restart: after `await User.findOne({ phone })'; a failure is caught and
\* answered with the menu of an unknown subscriber
P_StartAfterFind(S, q, ok) ==
    LET phone == normalizePhone(q.msisdn)
        existing == findOneBy(S, "phone", phone)
    IN  IF ok /\ existing # 0
          THEN P_Restart(S, q, [level |-> 0, message |-> P_HomeOf(P_displayName(S, existing)),
                                loggedIn |-> TRUE, userRef |-> existing], "start")
        ELSE P_Restart(S, q, [level |-> 0, message |-> P_Home, loggedIn |-> FALSE], "start")

\* userSession[0]?.loggedIn
P_loggedIn(S, q) ==
    IF Len(S.heap[q.userSession]) = 0 THEN FALSE ELSE Flag(S.heap[q.userSession][1], "loggedIn")

\* userSession[0]?.userRef: an _id, 0 when there is none
P_userRef(S, q) ==
    IF Len(S.heap[q.userSession]) = 0 \/ "userRef" \notin DOMAIN S.heap[q.userSession][1] THEN 0
    ELSE S.heap[q.userSession][1].userRef

\* P_HomeKey that replies the menu and keeps the array as it is
P_HomeKeep(S, q) == P_Reply(S, q, P_Home, "home")

\* if (userData === "0") up to `await User.findById' (logged in) or to the reply
P_HomeKey(S, q) ==
    IF P_loggedIn(S, q)
      THEN Await(S, [q EXCEPT !.uid = P_userRef(S, q)], "p_home_find")
    ELSE P_Restart(S, q, [level |-> 0, message |-> P_Home, loggedIn |-> FALSE], "home")

\* Home of a logged-in session after `await User.findById(userSession[0]?.userRef)'
P_HomeAfterFind(S, q, ok) ==
    LET userRef == P_userRef(S, q)
        me == IF ok THEN findById(S, q.uid) ELSE 0
    IN  P_Restart(S, q, [level |-> 0, message |-> P_HomeOf(P_displayName(S, me)),
                         loggedIn |-> TRUE, userRef |-> userRef], "home")

\* if (userData === "9"): pop unless at the bottom, reply the message now on top
P_Back(S, q) ==
    LET popped == IF Len(S.heap[q.userSession]) > 1 THEN Pop(S, q.userSession) ELSE S
        prev == Top(popped.heap[q.userSession])
    IN  IF Len(popped.heap[q.userSession]) = 0 THEN Done(S, Unhandled(q))
        ELSE P_Reply(popped, q, prev.message, "back")

P_InfoScreen == Msg("To register, you'll need:\n\n DVLA License Number\n Ghana Card (e.g., GHA-123456789-01)\n\nWe'll also collect:\n Full Name\n Username\n Phone\n Email\n Password\n\nPress 1 to continue")

\* case 0: the home menu, of a known subscriber (loggedIn) or an unknown one
P_Case0(S, q) ==
    IF Flag(q.current, "loggedIn")
      THEN IF q.userData = S_1 THEN Await(S, [q EXCEPT !.uid = P_userRef(S, q)], "p_me_find")
           ELSE IF q.userData = S_2
             THEN P_Advance(S, q, [level |-> 30, message |-> Msg("Enter DVLA or Ghana Card Number:")])
           ELSE P_End(S, q, Msg("Session ended."), "neutral")
    ELSE IF q.userData = S_1
           THEN P_Advance(S, q, [level |-> 5, message |-> P_InfoScreen])
         ELSE IF q.userData = S_2
           THEN P_Advance(S, q, [level |-> 30, message |-> Msg("Enter DVLA or Ghana Card Number:")])
         ELSE P_End(S, q, Msg("Session ended."), "neutral")

\* P_Summary that leaves the card number out
P_SummaryNoCard(u) ==
    MsgA("Name: {0}\nUsername: {1}\nPhone: {2}\nEmail: {3}\nDVLA: {4}\nGhanaCard: {5}",
         <<OrElse(Get(u, "name"), S_Dash), u.username, OrElse(Get(u, "phone"), S_Dash),
           OrElse(Get(u, "email"), S_Dash), OrElse(Get(u, "dvlaNumber"), S_Dash), S_Dash>>)

\* `${summary}` of a user record
P_Summary(u) ==
    MsgA("Name: {0}\nUsername: {1}\nPhone: {2}\nEmail: {3}\nDVLA: {4}\nGhanaCard: {5}",
         <<OrElse(Get(u, "name"), S_Dash), u.username, OrElse(Get(u, "phone"), S_Dash),
           OrElse(Get(u, "email"), S_Dash), OrElse(Get(u, "dvlaNumber"), S_Dash),
           OrElse(Get(u, "ghanaCardNumber"), S_Dash)>>)

\* View My Details after `await User.findById(userSession[0]?.userRef)'
P_MeAfterFind(S, q, ok) ==
    LET me == findById(S, q.uid)
    IN  IF ~ok THEN P_End(S, q, Msg("Unable to fetch details at the moment."), "neutral")
        ELSE IF me = 0 THEN P_End(S, q, Msg("Account not found."), "neutral")
        ELSE P_End(S, q, P_Summary(S.users[me]), "neutral")

\* case 5: the info screen; any input continues
P_Case5(S, q) == P_Advance(S, q, [level |-> 10, message |-> Msg("Enter Full Name:")])

\* case 10: full name
P_Case10(S, q) ==
    LET name == Trim(q.userData)
    IN  IF name = <<>> \/ Len(name) < 3 \/ HasDigit(name)
          THEN P_Retry(S, q, "Invalid name. Enter Full Name:", "invalid")
        ELSE P_Advance(S, q, [level |-> 11, name |-> name, message |-> Msg("Choose a Username:")])

\* case 11: username, up to `await User.findOne({ username })'
P_Case11(S, q) ==
    LET username == Trim(q.userData)
    IN  IF ~isValidUsername(username)
          THEN P_Retry(S, q, "Invalid username. Try again:", "invalid")
        ELSE Await(S, [q EXCEPT !.val = username], "p11_find")

\* case 11 after the await
P_UsernameAfterFind(S, q, ok) ==
    IF ~ok THEN P_Catch(S, q)
    ELSE IF findOneBy(S, "username", q.val) # 0
      THEN P_Retry(S, q, "Username taken. Enter a different Username:", "conflict")
    ELSE P_Advance(S, q, [level |-> 12, name |-> Get(q.current, "name"), username |-> q.val,
                          message |-> Msg("Enter Phone Number (e.g., 024XXXXXXX):")])

\* case 12: phone, up to `await User.findOne({ phone })'
P_Case12(S, q) ==
    LET rawPhone == Trim(q.userData)
    IN  IF ~isValidPhone(rawPhone)
          THEN P_Retry(S, q, "Invalid phone. Enter Phone Number (e.g., 024XXXXXXX):", "invalid")
        ELSE Await(S, [q EXCEPT !.val = normalizePhone(rawPhone)], "p12_find")

\* case 12 after the await
P_PhoneAfterFind(S, q, ok) ==
    IF ~ok THEN P_Catch(S, q)
    ELSE IF findOneBy(S, "phone", q.val) # 0
      THEN P_Retry(S, q, "Phone already registered. Enter a different Phone Number:", "conflict")
    ELSE P_Advance(S, q, [level |-> 13, name |-> Get(q.current, "name"),
                          username |-> Get(q.current, "username"), phone |-> q.val,
                          message |-> Msg("Enter Email:")])

\* case 13: email, up to `await User.findOne({ email })'
P_Case13(S, q) ==
    LET email == Trim(q.userData)
    IN  IF ~isValidEmail(email)
          THEN P_Retry(S, q, "Invalid email. Enter Email:", "invalid")
        ELSE Await(S, [q EXCEPT !.val = email], "p13_find")

\* case 13 after the await
P_EmailAfterFind(S, q, ok) ==
    IF ~ok THEN P_Catch(S, q)
    ELSE IF findOneBy(S, "email", q.val) # 0
      THEN P_Retry(S, q, "Email already in use. Enter a different Email:", "conflict")
    ELSE P_Advance(S, q, [level |-> 14, name |-> Get(q.current, "name"),
                          username |-> Get(q.current, "username"),
                          phone |-> Get(q.current, "phone"), email |-> q.val,
                          message |-> Msg("Create Password:")])

\* case 14: password
P_Case14(S, q) ==
    LET password == Trim(q.userData)
    IN  IF Len(password) < 6
          THEN P_Retry(S, q, "Password too short (min 6). Create Password:", "invalid")
        ELSE P_Advance(S, q, Spread(q.current, [level |-> 15, password |-> password,
                                                message |-> Msg("Confirm Password:")]))

\* P_Mismatch that leaves the confirmation entry on the stack and gives it the message
P_MismatchNoPop(S, q) ==
    P_Retry(S, q, "Passwords do not match. Create Password:", "mismatch")

\* the mismatch branch of the confirm step: userSession.pop(), then the entry now
\* on top gets the message
P_Mismatch(S, q) ==
    LET message == Msg("Passwords do not match. Create Password:")
        popped == Pop(S, q.userSession)
        arr == popped.heap[q.userSession]
        below == IF Len(arr) = 0 THEN [message |-> message] ELSE Spread(Top(arr), [message |-> message])
    IN  P_Reply(SetTop(popped, q.userSession, below), q, message, "mismatch")

\* case 15: confirm password
P_Case15(S, q) ==
    LET confirm == Trim(q.userData)
    IN  IF confirm # Get(q.current, "password")
          THEN P_Mismatch(S, q)
        ELSE P_Advance(S, q, Spread(q.current, [level |-> 16, message |-> Msg("Enter DVLA License Number:")]))

\* case 16: DVLA number, up to `await User.findOne({ dvlaNumber })'
P_Case16(S, q) ==
    LET dvlaNumber == ToUpperCase(Trim(q.userData))
    IN  IF ~isValidDVLA(dvlaNumber)
          THEN P_Retry(S, q, "Invalid DVLA number. Enter DVLA License Number:", "invalid")
        ELSE Await(S, [q EXCEPT !.val = dvlaNumber], "p16_find")

\* case 16 after the await
P_DvlaAfterFind(S, q, ok) ==
    IF ~ok THEN P_Catch(S, q)
    ELSE IF findOneBy(S, "dvlaNumber", q.val) # 0
      THEN P_Retry(S, q, "DVLA already registered. Enter a different DVLA License Number:", "conflict")
    ELSE P_Advance(S, q, Spread(q.current, [level |-> 17, dvlaNumber |-> q.val,
                                            message |-> Msg("Enter Ghana Card (e.g., GHA-123456789-01):")]))

\* case 17: Ghana Card number, up to `await User.findOne({ ghanaCardNumber })'
P_Case17(S, q) ==
    LET ghanaCardNumber == ToUpperCase(Trim(q.userData))
    IN  IF ~isValidGhanaCard(ghanaCardNumber)
          THEN P_Retry(S, q, "Invalid format. Use GHA-XXXXXXXXX-XX:", "invalid")
        ELSE Await(S, [q EXCEPT !.val = ghanaCardNumber], "p17_find")

\* case 17 after the await, up to `await User.create'.  bcrypt.hash touches neither
\* the store nor the repository, so its await is not a segment of its own; it throws
\* on an undefined password
P_CardAfterFind(S, q, ok) ==
    IF ~ok THEN P_Catch(S, q)
    ELSE IF findOneBy(S, "ghanaCardNumber", q.val) # 0
      THEN P_Retry(S, q, "Ghana Card already registered. Enter a different Ghana Card:", "conflict")
    ELSE IF Get(q.current, "password") = Undefined
      THEN P_Catch(S, q)
    ELSE Await(S, q, "p17_create")

\* the fields a unique index of the PCRS userSchema covers
P_UniqueFields == {"username", "phone", "email", "dvlaNumber", "ghanaCardNumber"}

\* userSchema: username and password are required; the unique indexes (sparse ones
\* skip documents without the field)
P_userAccepted(S, u) ==
    /\ Truthy(u.username)
    /\ Truthy(u.password)
    /\ \A f \in P_UniqueFields :
          u[f] # Undefined => \A i \in 1..Len(S.users) : Get(S.users[i], f) # u[f]

\* case 17 after `await User.create({...})'
P_AfterCreate(S, q, ok) ==
    LET doc == [username |-> Get(q.current, "username"),
                password |-> bcryptHash(Get(q.current, "password")),
                role |-> "courier",
                name |-> Get(q.current, "name"),
                phone |-> Get(q.current, "phone"),
                email |-> Get(q.current, "email"),
                dvlaNumber |-> Get(q.current, "dvlaNumber"),
                ghanaCardNumber |-> q.val]
    IN  IF ~ok \/ ~P_userAccepted(S, doc)
          THEN P_End(S, q, Msg("Registration failed. Try again later."), "createfail")
        ELSE P_End([S EXCEPT !.users = Append(@, doc)], q,
                   Msg("Registration successful!\n\nAn SMS will be sent to your phone shortly. Please follow the link in the SMS to upload your:\n DVLA License\n Ghana Card"),
                   "success")

\* case 30 after `await User.findOne(...)': lookup by Ghana Card, else by DVLA number
P_LookupAfterFind(S, q, ok) ==
    LET query == ToUpperCase(Trim(q.userData))
        user == IF isValidGhanaCard(query) THEN findOneBy(S, "ghanaCardNumber", query)
                ELSE findOneBy(S, "dvlaNumber", query)
    IN  IF ~ok THEN P_Catch(S, q)
        ELSE IF user = 0 THEN P_Retry(S, q, "Courier not found. 9.Back 0.Home", "notfound")
        ELSE P_End(S, q, P_Summary(S.users[user]), "found")

\* the handler from its entry to its first await or response
P_Begin(S, q) ==
    LET q1 == [q EXCEPT !.current = Top(S.heap[q.userSession])]
        level == q1.current.level
    IN  IF q.newSession \/ q.userSession = NoRef
          THEN Await(S, [q EXCEPT !.userSession = NoRef], "p_new_find")
        ELSE IF q.userData = S_0 THEN P_HomeKey(S, q1)
        ELSE IF q.userData = S_9 THEN P_Back(S, q1)
        ELSE CASE level = 0 -> P_Case0(S, q1)
               [] level = 5 -> P_Case5(S, q1)
               [] level = 10 -> P_Case10(S, q1)
               [] level = 11 -> P_Case11(S, q1)
               [] level = 12 -> P_Case12(S, q1)
               [] level = 13 -> P_Case13(S, q1)
               [] level = 14 -> P_Case14(S, q1)
               [] level = 15 -> P_Case15(S, q1)
               [] level = 16 -> P_Case16(S, q1)
               [] level = 17 -> P_Case17(S, q1)
               [] level = 30 -> Await(S, q1, "p30_find")
               [] OTHER -> P_Restart(S, q1, [level |-> 0, message |-> P_Home], "reset")

-----------------------------------------------------------------------------
(* Actions common to the three applications                                 *)

\* a request is taken by the lowest free slot
FreeSlot(r) ==
    /\ reqs[r].pc = "idle"
    /\ \A o \in Slots : reqs[o].pc = "idle" => r <= o
    /\ Cardinality({o \in Slots : reqs[o].pc # "idle"}) < conc

\* the 15 minutes of an entry pass without a saveSession: memory-cache drops it
Expire(sid) ==
    /\ cache[sid] # NoRef
    /\ cache' = [cache EXCEPT ![sid] = NoRef]
    /\ heap' = Gc(heap, cache', reqs)
    /\ UNCHANGED <<app, owner, conc, toks, budget, users, loans, reqs, last, nreq,
                   asked, usersAtStart>>

-----------------------------------------------------------------------------
(* Actions of GatePlus: one per synchronous segment of the handler          *)

GReceive(r) ==
    /\ app = "G" /\ FreeSlot(r) /\ nreq < budget
    /\ nreq' = nreq + 1
    /\ \E sid \in toks, ns \in BOOLEAN :
          /\ asked' = [asked EXCEPT ![sid] = @ + 1]
          /\ \E d \in IF ns THEN {S_Dial} ELSE InputsG :
                Apply(r, G_Begin(World, NewReq(sid, ns, owner[sid], d, getSession(World, sid))))

GNewFound(r) ==
    /\ app = "G" /\ reqs[r].pc = "g_new_find"
    /\ \E ok \in BOOLEAN : Resume(r, ok, G_NewAfterFind(World, reqs[r], ok))

GNewLogged(r) ==
    /\ app = "G" /\ reqs[r].pc = "g_new_log"
    /\ \E ok \in BOOLEAN : Resume(r, ok, G_NewAfterLog(World, reqs[r], ok))

GRegFound(r) ==
    /\ app = "G" /\ reqs[r].pc = "g11_find"
    /\ \E ok \in BOOLEAN : Resume(r, ok, G_RegAfterFind(World, reqs[r], ok))

GRegSaved(r) ==
    /\ app = "G" /\ reqs[r].pc = "g11_save"
    /\ \E ok \in BOOLEAN : Resume(r, ok, G_RegAfterSave(World, reqs[r], ok))

GRegLogged(r) ==
    /\ app = "G" /\ reqs[r].pc = "g11_log"
    /\ \E ok \in BOOLEAN : Resume(r, ok, G_RegAfterLog(World, reqs[r], ok))

GMenuFound(r) ==
    /\ app = "G" /\ reqs[r].pc = "g_menu_find"
    /\ \E ok \in BOOLEAN : Resume(r, ok, G_MenuAfterFind(World, reqs[r], ok))

GMenuLogged(r) ==
    /\ app = "G" /\ reqs[r].pc = "g_menu_log"
    /\ \E ok \in BOOLEAN : Resume(r, ok, G_MenuAfterLog(World, reqs[r], ok))

GStatusFound(r) ==
    /\ app = "G" /\ reqs[r].pc = "g_status_find"
    /\ \E ok \in BOOLEAN : Resume(r, ok, G_StatusAfterFind(World, reqs[r], ok))

GLoanSaved(r) ==
    /\ app = "G" /\ reqs[r].pc = "g2_save"
    /\ \E ok \in BOOLEAN : Resume(r, ok, G_LoanAfterSave(World, reqs[r], ok))

GLoanLogged(r) ==
    /\ app = "G" /\ reqs[r].pc = "g2_log"
    /\ \E ok \in BOOLEAN : Resume(r, ok, G_LoanAfterLog(World, reqs[r], ok))

GApprove(m) ==
    /\ app = "G"
    /\ G_findUser(World, m) # 0
    /\ users' = G_Approve(World, m).users
    /\ UNCHANGED <<app, owner, conc, toks, budget, cache, heap, loans, reqs, last, nreq,
                   asked, usersAtStart>>

-----------------------------------------------------------------------------
(* Actions of NCSTCS: one per synchronous segment of the handler          *)

NReceive(r) ==
    /\ app = "N" /\ FreeSlot(r) /\ nreq < budget
    /\ nreq' = nreq + 1
    /\ \E sid \in toks, ns \in BOOLEAN :
          /\ asked' = [asked EXCEPT ![sid] = @ + 1]
          /\ \E d \in IF ns THEN {S_Dial} ELSE InputsN :
                Apply(r, N_Begin(World, NewReq(sid, ns, owner[sid], d, getSession(World, sid))))

NUsernameFound(r) ==
    /\ app = "N" /\ reqs[r].pc = "n11_find"
    /\ \E ok \in BOOLEAN : Resume(r, ok, N_UsernameAfterFind(World, reqs[r], ok))

NEmailFound(r) ==
    /\ app = "N" /\ reqs[r].pc = "n12_find"
    /\ \E ok \in BOOLEAN : Resume(r, ok, N_EmailAfterFind(World, reqs[r], ok))

NDvlaFound(r) ==
    /\ app = "N" /\ reqs[r].pc = "n15_find"
    /\ \E ok \in BOOLEAN : Resume(r, ok, N_DvlaAfterFind(World, reqs[r], ok))

NCardFound(r) ==
    /\ app = "N" /\ reqs[r].pc = "n16_find"
    /\ \E ok \in BOOLEAN : Resume(r, ok, N_CardAfterFind(World, reqs[r], ok))

NCreated(r) ==
    /\ app = "N" /\ reqs[r].pc = "n16_create"
    /\ \E ok \in BOOLEAN : Resume(r, ok, N_AfterCreate(World, reqs[r], ok))

NLookupFound(r) ==
    /\ app = "N" /\ reqs[r].pc = "n30_find"
    /\ \E ok \in BOOLEAN : Resume(r, ok, N_LookupAfterFind(World, reqs[r], ok))

-----------------------------------------------------------------------------
(* Actions of PCRS: one per synchronous segment of the handler          *)

PReceive(r) ==
    /\ app = "P" /\ FreeSlot(r) /\ nreq < budget
    /\ nreq' = nreq + 1
    /\ \E sid \in toks, ns \in BOOLEAN :
          /\ asked' = [asked EXCEPT ![sid] = @ + 1]
          /\ \E d \in IF ns THEN {S_Dial} ELSE InputsP :
                Apply(r, P_Begin(World, NewReq(sid, ns, owner[sid], d, getSession(World, sid))))

PStartFound(r) ==
    /\ app = "P" /\ reqs[r].pc = "p_new_find"
    /\ \E ok \in BOOLEAN : Resume(r, ok, P_StartAfterFind(World, reqs[r], ok))

PHomeFound(r) ==
    /\ app = "P" /\ reqs[r].pc = "p_home_find"
    /\ \E ok \in BOOLEAN : Resume(r, ok, P_HomeAfterFind(World, reqs[r], ok))

PMeFound(r) ==
    /\ app = "P" /\ reqs[r].pc = "p_me_find"
    /\ \E ok \in BOOLEAN : Resume(r, ok, P_MeAfterFind(World, reqs[r], ok))

PUsernameFound(r) ==
    /\ app = "P" /\ reqs[r].pc = "p11_find"
    /\ \E ok \in BOOLEAN : Resume(r, ok, P_UsernameAfterFind(World, reqs[r], ok))

PPhoneFound(r) ==
    /\ app = "P" /\ reqs[r].pc = "p12_find"
    /\ \E ok \in BOOLEAN : Resume(r, ok, P_PhoneAfterFind(World, reqs[r], ok))

PEmailFound(r) ==
    /\ app = "P" /\ reqs[r].pc = "p13_find"
    /\ \E ok \in BOOLEAN : Resume(r, ok, P_EmailAfterFind(World, reqs[r], ok))

PDvlaFound(r) ==
    /\ app = "P" /\ reqs[r].pc = "p16_find"
    /\ \E ok \in BOOLEAN : Resume(r, ok, P_DvlaAfterFind(World, reqs[r], ok))

PCardFound(r) ==
    /\ app = "P" /\ reqs[r].pc = "p17_find"
    /\ \E ok \in BOOLEAN : Resume(r, ok, P_CardAfterFind(World, reqs[r], ok))

PCreated(r) ==
    /\ app = "P" /\ reqs[r].pc = "p17_create"
    /\ \E ok \in BOOLEAN : Resume(r, ok, P_AfterCreate(World, reqs[r], ok))

PLookupFound(r) ==
    /\ app = "P" /\ reqs[r].pc = "p30_find"
    /\ \E ok \in BOOLEAN : Resume(r, ok, P_LookupAfterFind(World, reqs[r], ok))

-----------------------------------------------------------------------------
(* Specifications                                                           *)

\* the subscribers that hold the tokens: the same one both, or two
Owners == {o \in [Tokens -> Msisdns] : o["A"] = S_Msisdn1}

\* one session, requests served one at a time
OneAtATime(budget_) ==
    [conc |-> 1, budget |-> budget_, toks |-> {"A"},
     owners |-> {o \in Owners : o["B"] = S_Msisdn1}]

\* two sessions of one subscriber, requests served one at a time
Handover ==
    [conc |-> 1, budget |-> MaxRequestsHandover, toks |-> Tokens,
     owners |-> {o \in Owners : o["B"] = S_Msisdn1}]

\* one session, two requests in flight
TwoInFlight(budget_) ==
    [conc |-> Cardinality(Slots), budget |-> budget_, toks |-> {"A"},
     owners |-> {o \in Owners : o["B"] = S_Msisdn1}]

\* two sessions of one or two subscribers, two requests in flight
TwoSessions ==
    [conc |-> Cardinality(Slots), budget |-> MaxRequestsG, toks |-> Tokens, owners |-> Owners]

\* a GatePlus record left by an earlier run of the process
G_OldUser ==
    [fullName |-> S_Name, ghanaCard |-> S_Card, msisdn |-> S_Msisdn1,
     status |-> "pending_verification", verified |-> FALSE]

\* an NCSTCS record left by an earlier run of the process
N_OldUser ==
    [username |-> S_User, password |-> bcryptHash(S_Pass), role |-> "courier", name |-> S_Name,
     email |-> S_Email, dvlaNumber |-> S_Dvla, ghanaCardNumber |-> S_Card]

\* a PCRS record left by an earlier run of the process
P_OldUser ==
    [username |-> S_User, password |-> bcryptHash(S_Pass), role |-> "courier", name |-> S_Name,
     phone |-> normalizePhone(S_Phone), email |-> S_Email, dvlaNumber |-> S_Dvla,
     ghanaCardNumber |-> S_Card]

\* the state of a process that has just started: an empty session store, no request
\* in flight, and a repository that holds what earlier runs left in it
InitOf(a, workloads, repositories) ==
    /\ app = a
    /\ \E w \in workloads :
          conc = w.conc /\ budget = w.budget /\ toks = w.toks /\ owner \in w.owners
    /\ users \in repositories
    /\ usersAtStart = users
    /\ asked = [t \in Tokens |-> 0]
    /\ loans = <<>>
    /\ cache = [t \in Tokens |-> NoRef]
    /\ heap = [i \in ArrIds |-> <<>>]
    /\ reqs = [r \in Slots |-> IdleReq]
    /\ last = NoResponse
    /\ nreq = 0

InitG == InitOf("G", {TwoSessions, Handover}, {<<>>, <<G_OldUser>>})

\* GatePlus serving one token whose requests can overlap (a double submit, a retry
\* of the network)
InitGConc == InitOf("G", {TwoInFlight(MaxRequestsConcG)}, {<<>>, <<G_OldUser>>})

InitN ==
    InitOf("N", {OneAtATime(MaxRequestsSeq), TwoInFlight(MaxRequestsConcN), Handover},
           {<<>>, <<N_OldUser>>})

InitP ==
    InitOf("P", {OneAtATime(MaxRequestsSeqP), TwoInFlight(MaxRequestsConcP), Handover},
           {<<>>, <<P_OldUser>>})

NextG ==
    \/ \E r \in Slots : GReceive(r)
    \/ \E r \in Slots : GNewFound(r)
    \/ \E r \in Slots : GNewLogged(r)
    \/ \E r \in Slots : GRegFound(r)
    \/ \E r \in Slots : GRegSaved(r)
    \/ \E r \in Slots : GRegLogged(r)
    \/ \E r \in Slots : GMenuFound(r)
    \/ \E r \in Slots : GMenuLogged(r)
    \/ \E r \in Slots : GStatusFound(r)
    \/ \E r \in Slots : GLoanSaved(r)
    \/ \E r \in Slots : GLoanLogged(r)
    \/ \E m \in Msisdns : GApprove(m)
    \/ \E sid \in Tokens : app = "G" /\ Expire(sid)

SpecG == InitG /\ [][NextG]_vars

NextN ==
    \/ \E r \in Slots : NReceive(r)
    \/ \E r \in Slots : NUsernameFound(r)
    \/ \E r \in Slots : NEmailFound(r)
    \/ \E r \in Slots : NDvlaFound(r)
    \/ \E r \in Slots : NCardFound(r)
    \/ \E r \in Slots : NCreated(r)
    \/ \E r \in Slots : NLookupFound(r)
    \/ \E sid \in Tokens : app = "N" /\ Expire(sid)

SpecGConc == InitGConc /\ [][NextG]_vars

SpecN == InitN /\ [][NextN]_vars

NextP ==
    \/ \E r \in Slots : PReceive(r)
    \/ \E r \in Slots : PStartFound(r)
    \/ \E r \in Slots : PHomeFound(r)
    \/ \E r \in Slots : PMeFound(r)
    \/ \E r \in Slots : PUsernameFound(r)
    \/ \E r \in Slots : PPhoneFound(r)
    \/ \E r \in Slots : PEmailFound(r)
    \/ \E r \in Slots : PDvlaFound(r)
    \/ \E r \in Slots : PCardFound(r)
    \/ \E r \in Slots : PCreated(r)
    \/ \E r \in Slots : PLookupFound(r)
    \/ \E sid \in Tokens : app = "P" /\ Expire(sid)

SpecP == InitP /\ [][NextP]_vars

Init == InitG \/ InitN \/ InitP

\* the levels that the switch statements of handler a have a case for
HandledLevels(a) ==
    CASE a = "G" -> {1, 2, 10, 11}
      [] a = "N" -> {0, 30} \cup (10..16)
      [] OTHER -> {0, 5, 30} \cup (10..17)

\* levels that take the default branch; in GatePlus 12 lies in the range of the
\* registration switch (10..19), which has no default, and 3 in the menu switch
UnhandledLevels(a) == IF a = "G" THEN {3, 12} ELSE {3, 20}

\* The default branches are defensive: no handler stores a level that it has no
\* case for, so no request sequence leads to them from an empty store.  To run
\* them, this specification starts from a store that already holds such a stack
\* for token A.
InitDefault ==
    /\ app \in {"G", "N", "P"}
    /\ conc = 1 /\ budget = MaxRequestsDefault /\ toks = {"A"}
    /\ owner = [t \in Tokens |-> S_Msisdn1]
    /\ users \in CASE app = "G" -> {<<G_OldUser>>}
                   [] app = "N" -> {<<>>, <<N_OldUser>>}
                   [] OTHER -> {<<>>, <<P_OldUser>>}
    /\ usersAtStart = users
    /\ asked = [t \in Tokens |-> 0]
    /\ loans = <<>>
    /\ cache = [t \in Tokens |-> IF t = "A" THEN 1 ELSE NoRef]
    /\ \E l \in UnhandledLevels(app) :
          heap = [i \in ArrIds |-> IF i = 1 THEN <<[level |-> l, message |-> Msg("")]>> ELSE <<>>]
    /\ reqs = [r \in Slots |-> IdleReq]
    /\ last = NoResponse
    /\ nreq = 0

\* the segments that a request runs on its way to a default branch, and after it
NextDefault ==
    \/ \E r \in Slots : GReceive(r)
    \/ \E r \in Slots : GMenuFound(r)
    \/ \E r \in Slots : GMenuLogged(r)
    \/ \E r \in Slots : NReceive(r)
    \/ \E r \in Slots : PReceive(r)
    \/ \E r \in Slots : PStartFound(r)

SpecDefault == InitDefault /\ [][NextDefault]_vars

\* the stack of an NCSTCS session that has advanced to the Ghana Card step with
\* the inputs S_Name, S_User, S_Email, S_Pass (twice) and S_Dvla
N_SignUpStack ==
    LET e11 == [level |-> 11, name |-> Trim(S_Name), message |-> Msg("Choose a Username:")]
        e12 == [level |-> 12, name |-> e11.name, username |-> Trim(S_User), message |-> Msg("Enter Email:")]
        e13 == [level |-> 13, name |-> e12.name, username |-> e12.username, email |-> Trim(S_Email),
                message |-> Msg("Create Password:")]
        e14 == Spread(e13, [level |-> 14, password |-> Trim(S_Pass), message |-> Msg("Confirm Password:")])
        e15 == Spread(e14, [level |-> 15, message |-> Msg("Enter DVLA License Number:")])
        e16 == Spread(e15, [level |-> 16, dvlaNumber |-> ToUpperCase(Trim(S_Dvla)),
                            message |-> Msg("Enter Ghana Card (e.g., GHA-123456789-01):")])
    IN  <<[level |-> 0, message |-> N_Home], [level |-> 10, message |-> Msg("Enter Full Name:")],
          e11, e12, e13, e14, e15, e16>>

\* the stack of a PCRS session of an unknown subscriber that has advanced to the
\* Ghana Card step with the inputs S_Name, S_User, S_Phone, S_Email, S_Pass
\* (twice) and S_Dvla
P_SignUpStack ==
    LET e11 == [level |-> 11, name |-> Trim(S_Name), message |-> Msg("Choose a Username:")]
        e12 == [level |-> 12, name |-> e11.name, username |-> Trim(S_User),
                message |-> Msg("Enter Phone Number (e.g., 024XXXXXXX):")]
        e13 == [level |-> 13, name |-> e12.name, username |-> e12.username,
                phone |-> normalizePhone(Trim(S_Phone)), message |-> Msg("Enter Email:")]
        e14 == [level |-> 14, name |-> e13.name, username |-> e13.username, phone |-> e13.phone,
                email |-> Trim(S_Email), message |-> Msg("Create Password:")]
        e15 == Spread(e14, [level |-> 15, password |-> Trim(S_Pass), message |-> Msg("Confirm Password:")])
        e16 == Spread(e15, [level |-> 16, message |-> Msg("Enter DVLA License Number:")])
        e17 == Spread(e16, [level |-> 17, dvlaNumber |-> ToUpperCase(Trim(S_Dvla)),
                            message |-> Msg("Enter Ghana Card (e.g., GHA-123456789-01):")])
    IN  <<[level |-> 0, message |-> P_Home, loggedIn |-> FALSE], [level |-> 5, message |-> P_InfoScreen],
          [level |-> 10, message |-> Msg("Enter Full Name:")], e11, e12, e13, e14, e15, e16, e17>>

\* Two sessions that have each passed every capture-time check while the repository
\* was empty stand at the last sign-up step with the same captured values.  It takes
\* sixteen (NCSTCS) or twenty (PCRS) requests to get there; this specification
\* starts from that state and lets their last steps and one more request interleave.
InitRace ==
    /\ app \in {"N", "P"}
    /\ conc = Cardinality(Slots) /\ budget = MaxRequestsRace /\ toks = Tokens
    /\ owner = [t \in Tokens |-> IF t = "A" THEN S_Msisdn1 ELSE S_Msisdn2]
    /\ users = <<>>
    /\ usersAtStart = users
    /\ asked = [t \in Tokens |-> 0]
    /\ loans = <<>>
    /\ cache = [t \in Tokens |-> IF t = "A" THEN 1 ELSE 2]
    /\ heap = [i \in ArrIds |-> IF i \in {1, 2}
                                  THEN IF app = "N" THEN N_SignUpStack ELSE P_SignUpStack
                                  ELSE <<>>]
    /\ reqs = [r \in Slots |-> IdleReq]
    /\ last = NoResponse
    /\ nreq = 0

\* the segments that the requests of these behaviours run: none of them gets to
\* the username, phone or email step
NextRace ==
    \/ \E r \in Slots : NReceive(r)
    \/ \E r \in Slots : NDvlaFound(r)
    \/ \E r \in Slots : NCardFound(r)
    \/ \E r \in Slots : NCreated(r)
    \/ \E r \in Slots : NLookupFound(r)
    \/ \E r \in Slots : PReceive(r)
    \/ \E r \in Slots : PStartFound(r)
    \/ \E r \in Slots : PHomeFound(r)
    \/ \E r \in Slots : PMeFound(r)
    \/ \E r \in Slots : PDvlaFound(r)
    \/ \E r \in Slots : PCardFound(r)
    \/ \E r \in Slots : PCreated(r)
    \/ \E r \in Slots : PLookupFound(r)
    \/ \E sid \in Tokens : Expire(sid)

SpecRace == InitRace /\ [][NextRace]_vars

\* characters of the amount strings: digits that reach both ends of the range
\* within MaxAmountLen characters (1e1, 1e3, 3e3), the point, the exponent mark,
\* the signs, white space and a character that ends a literal
AmountChars == {"0", "1", "3", ".", "e", "-", "+", " ", "x"}

\* longer amounts around the ends of the range
AmountLiterals ==
    {<<"9", ".", "9", "9">>, <<"1", "0", ".", "5">>, <<"1", "0", "0", "0">>, <<"1", "0", "0", "1">>,
     <<"1", "0", "0", "0", ".", "5">>, <<"I", "n", "f", "i", "n", "i", "t", "y">>}

\* the exponent of s has one digit at most, so that the number stays within the
\* integers the model computes with
ExponentShort(s) ==
    \A i \in 1..Len(s) :
        s[i] = "e" =>
            /\ ~(i + 2 <= Len(s) /\ s[i + 1] \in Digit /\ s[i + 2] \in Digit)
            /\ ~(i + 3 <= Len(s) /\ s[i + 1] \in {"+", "-"} /\ s[i + 2] \in Digit /\ s[i + 3] \in Digit)

\* userData of the requests at the amount step
AmountStrings ==
    {s \in UNION {[1..n -> AmountChars] : n \in 0..MaxAmountLen} : ExponentShort(s)}
        \cup AmountLiterals

\* the stack of a GatePlus session of subscriber m that has chosen option 1
G_AmountStack(sid, m) ==
    <<[sessionID |-> sid, msisdn |-> m, level |-> 1, message |-> G_Menu],
      [level |-> 2, message |-> Msg("Enter loan amount (GHS 10 - 1000):")]>>

\* A verified subscriber has opened a session and chosen option 1: the session
\* stands at the amount step.  This specification starts there and draws the
\* amount from AmountStrings.
InitAmount ==
    /\ app = "G"
    /\ conc = 1 /\ budget = MaxRequestsAmount /\ toks = {"A"}
    /\ owner = [t \in Tokens |-> S_Msisdn1]
    /\ users = <<[G_OldUser EXCEPT !.status = "verified", !.verified = TRUE]>>
    /\ usersAtStart = users
    /\ asked = [t \in Tokens |-> 0]
    /\ loans = <<>>
    /\ cache = [t \in Tokens |-> IF t = "A" THEN 1 ELSE NoRef]
    /\ heap = [i \in ArrIds |-> IF i = 1 THEN G_AmountStack("A", S_Msisdn1) ELSE <<>>]
    /\ reqs = [r \in Slots |-> IdleReq]
    /\ last = NoResponse
    /\ nreq = 0

\* a request of a live session with an amount string as userData
GReceiveAmount(r) ==
    /\ app = "G" /\ FreeSlot(r) /\ nreq < budget
    /\ nreq' = nreq + 1
    /\ \E sid \in toks :
          /\ asked' = [asked EXCEPT ![sid] = @ + 1]
          /\ \E d \in AmountStrings :
                Apply(r, G_Begin(World, NewReq(sid, FALSE, owner[sid], d, getSession(World, sid))))

NextAmount ==
    \/ \E r \in Slots : GReceiveAmount(r)
    \/ \E r \in Slots : GMenuFound(r)
    \/ \E r \in Slots : GMenuLogged(r)
    \/ \E r \in Slots : GLoanSaved(r)
    \/ \E r \in Slots : GLoanLogged(r)

SpecAmount == InitAmount /\ [][NextAmount]_vars

\* the stack of a GatePlus session of subscriber m that has entered a full name
G_CardStack(sid, m) ==
    <<[sessionID |-> sid, msisdn |-> m, level |-> 10, message |-> G_Welcome],
      [level |-> 11, message |-> Msg("Enter Ghana Card (e.g., GHA-123456789-01):"),
       fullName |-> Trim(S_Name)]>>

\* Two sessions, of one subscriber or of two, have been opened while the repository
\* was empty and have each taken a full name: both stand at the Ghana Card step.
\* This specification starts there and lets their last steps interleave.
InitReg ==
    /\ app = "G"
    /\ conc = Cardinality(Slots) /\ budget = MaxRequestsReg /\ toks = Tokens
    /\ owner \in Owners
    /\ users = <<>>
    /\ usersAtStart = users
    /\ asked = [t \in Tokens |-> 0]
    /\ loans = <<>>
    /\ cache = [t \in Tokens |-> IF t = "A" THEN 1 ELSE 2]
    /\ heap = [i \in ArrIds |-> IF i \in {1, 2}
                                  THEN G_CardStack(IF i = 1 THEN "A" ELSE "B",
                                                   owner[IF i = 1 THEN "A" ELSE "B"])
                                  ELSE <<>>]
    /\ reqs = [r \in Slots |-> IdleReq]
    /\ last = NoResponse
    /\ nreq = 0

\* the segments that the requests of these behaviours run: none of them gets to
\* the save of a loan
NextReg ==
    \/ \E r \in Slots : GReceive(r)
    \/ \E r \in Slots : GNewFound(r)
    \/ \E r \in Slots : GNewLogged(r)
    \/ \E r \in Slots : GRegFound(r)
    \/ \E r \in Slots : GRegSaved(r)
    \/ \E r \in Slots : GRegLogged(r)
    \/ \E r \in Slots : GMenuFound(r)
    \/ \E r \in Slots : GMenuLogged(r)
    \/ \E r \in Slots : GStatusFound(r)
    \/ \E m \in Msisdns : GApprove(m)

SpecReg == InitReg /\ [][NextReg]_vars

\* what a subscriber types at the phone step: a prefix, the digits that follow it,
\* and white space around them
PhonePrefixes ==
    {<<"0">>, <<"2", "3", "3">>, <<"+", "2", "3", "3">>, <<>>, <<"+">>, <<"0", "0">>,
     <<"+", "2", "3", "3", "0">>}

PhoneBodies ==
    {<<"2", "4", "1", "2", "3", "4", "5", "6", "7">>,
     <<"5", "5", "1", "2", "3", "4", "5", "6", "7">>,
     <<"2", "4", "1", "2", "3", "4", "5", "6">>,
     <<"2", "4", "1", "2", "3", "4", "5", "6", "7", "8">>,
     <<"2", "4", "1", "2", "3", "4", "5", "6", "x">>}

PhonePads == {<<>>, <<" ">>}

\* userData of the requests at the phone step
PhoneStrings ==
    {l \o a \o b \o r : l \in PhonePads, a \in PhonePrefixes, b \in PhoneBodies, r \in PhonePads}

\* the stack of a PCRS session of an unknown subscriber that has entered a name and
\* a username no record holds
P_PhoneStack ==
    <<P_SignUpStack[1], P_SignUpStack[2], P_SignUpStack[3], P_SignUpStack[4],
      [P_SignUpStack[5] EXCEPT !.username = Trim(S_Dvla)]>>

\* A PCRS session stands at the phone step, with an empty repository or with the
\* record of the subscriber 024 123 4567, whose phone is stored in the +233 form.
\* This specification starts there and draws the phone from PhoneStrings.
InitPhone ==
    /\ app = "P"
    /\ conc = 1 /\ budget = MaxRequestsPhone /\ toks = {"A"}
    /\ owner = [t \in Tokens |-> S_Msisdn1]
    /\ users \in {<<>>, <<P_OldUser>>}
    /\ usersAtStart = users
    /\ asked = [t \in Tokens |-> 0]
    /\ loans = <<>>
    /\ cache = [t \in Tokens |-> IF t = "A" THEN 1 ELSE NoRef]
    /\ heap = [i \in ArrIds |-> IF i = 1 THEN P_PhoneStack ELSE <<>>]
    /\ reqs = [r \in Slots |-> IdleReq]
    /\ last = NoResponse
    /\ nreq = 0

\* a request of a live session with a phone string as userData
PReceivePhone(r) ==
    /\ app = "P" /\ FreeSlot(r) /\ nreq < budget
    /\ nreq' = nreq + 1
    /\ \E sid \in toks :
          /\ asked' = [asked EXCEPT ![sid] = @ + 1]
          /\ \E d \in PhoneStrings :
                Apply(r, P_Begin(World, NewReq(sid, FALSE, owner[sid], d, getSession(World, sid))))

NextPhone ==
    \/ \E r \in Slots : PReceivePhone(r)
    \/ \E r \in Slots : PPhoneFound(r)

SpecPhone == InitPhone /\ [][NextPhone]_vars

Next == NextG \/ NextN \/ NextP

Spec == Init /\ [][Next]_vars

-----------------------------------------------------------------------------
(* What a step does to the request it answers                               *)

InFlight(q) == {r \in Slots : q[r].pc # "idle"}

\* this step sends a response
Answered == nreq' - Cardinality(InFlight(reqs')) = nreq - Cardinality(InFlight(reqs)) + 1

\* this step accepts a request
Arrived == nreq' = nreq + 1

\* the requests (at most one) that this step resumes after an await and answers
Resumed == {r \in Slots : reqs[r].pc # "idle" /\ reqs'[r].pc = "idle"}

\* the array the request answered by this step read from the store (NoRef: none)
ReadRef ==
    IF Resumed # {} THEN reqs[CHOOSE r \in Resumed : TRUE].userSession
    ELSE cache[last'.sessionID]

\* the entry that was on top when the request answered by this step read the array
ReadTop ==
    IF Resumed # {} THEN reqs[CHOOSE r \in Resumed : TRUE].current
    ELSE Top(heap[cache[last'.sessionID]])

\* this step answers a request of a session that was alive when the request read it
AnsweredLive == Answered /\ last'.status = 200 /\ ~last'.newSession /\ ReadRef # NoRef

\* the stack the store holds for a token; <<>> when it holds none
Stored(c, h, t) == IF c[t] = NoRef THEN <<>> ELSE h[c[t]]

NoTwoOfOneLevel(arr) == \A i, j \in 1..Len(arr) : i # j => arr[i].level # arr[j].level

-----------------------------------------------------------------------------
(* Properties                                                               *)

\* C1: in all three handlers and under every interleaving of requests, an entry of
\* the session store is a stack with at least one DialogState
StackNonEmpty == \A t \in Tokens : cache[t] # NoRef => Len(heap[cache[t]]) >= 1

\* a stack that a password mismatch has just popped is stored
StackAfterMismatch ==
    /\ last.kind = "mismatch"
    /\ cache[last.sessionID] # NoRef
    /\ Len(heap[cache[last.sessionID]]) >= 1

\* C2: when the second of two concurrent requests with the same token and the same
\* input, both read at the same level of a step that awaits the repository, is
\* answered like the first, the depth is the one the first left (one more than before
\* the two) and no two entries of the stored stack have the same level
DoubleSubmitPushesOnce ==
    [][\A r \in Resumed :
          ( /\ ~reqs[r].newSession
            /\ last.kind = "advance"
            /\ last.sessionID = reqs[r].sessionID
            /\ last.userData = reqs[r].userData
            /\ last.level = reqs[r].current.level
            /\ last'.kind = "advance" )
          => /\ Len(Stored(cache', heap', reqs[r].sessionID)) = Len(heap[reqs[r].userSession])
             /\ NoTwoOfOneLevel(Stored(cache', heap', reqs[r].sessionID))]_vars

\* C3: a request with newSession = false for a token the store has no entry of is
\* answered at once (no await of the repository) with the session-expired message
\* and continueSession = false, and no entry is created
AbsentSessionExpires ==
    [][Arrived =>
          /\ (Answered /\ ~last'.newSession /\ cache[last'.sessionID] = NoRef)
                => /\ last'.message = G_Expired
                   /\ ~last'.continueSession
                   /\ cache'[last'.sessionID] = NoRef
          /\ \A r \in Slots :
                (reqs[r].pc = "idle" /\ reqs'[r].pc # "idle" /\ ~reqs'[r].newSession)
                   => cache[reqs'[r].sessionID] # NoRef]_vars

\* C4: in NCSTCS and PCRS, input "0" on a live session leaves a stored stack of
\* exactly one entry, of level 0, and is answered with continueSession = true
HomeResets ==
    [][(AnsweredLive /\ app \in {"N", "P"} /\ last'.userData = S_0)
          => /\ Len(Stored(cache', heap', last'.sessionID)) = 1
             /\ Stored(cache', heap', last'.sessionID)[1].level = 0
             /\ last'.continueSession]_vars

\* Home has been pressed at the password step
HomeFromPassword ==
    /\ last.kind = "home"
    /\ last.level = 13
    /\ Len(Stored(cache, heap, last.sessionID)) = 1

\* C5: in NCSTCS and PCRS, input "9" on a live session whose stack has depth 1
\* leaves the stored stack as it was, answers the stored message of the single
\* entry with continueSession = true, and answers the same message as the "9"
\* answered just before it
BackAtBottom ==
    [][(AnsweredLive /\ app \in {"N", "P"} /\ last'.userData = S_9 /\ Len(heap[ReadRef]) = 1)
          => /\ cache'[last'.sessionID] = ReadRef
             /\ heap'[ReadRef] = heap[ReadRef]
             /\ last'.message = heap[ReadRef][1].message
             /\ last'.continueSession
             /\ (last.kind = "back" /\ last.sessionID = last'.sessionID)
                   => last'.message = last.message]_vars

\* Back has been pressed on the home menu
BackOnHome ==
    /\ last.kind = "back"
    /\ last.level = 0
    /\ last.continueSession
    /\ Len(Stored(cache, heap, last.sessionID)) = 1

\* a full name that the name step rejects: shorter than min characters or with a digit
BadName(d, min) == Len(Trim(d)) < min \/ HasDigit(Trim(d))

\* an amount that is not a number or lies outside 10..1000
BadAmount(d) ==
    isNaN(parseFloat(d)) \/ NumLess(parseFloat(d), 10) \/ NumGreater(parseFloat(d), 1000)

\* the input d fails the format validation of the level of entry top, in handler a
FailsFormat(a, top, d) ==
    CASE a = "G" ->
           CASE top.level = 10 -> BadName(d, 2)
             [] top.level = 11 -> ~isValidGhanaCard(ToUpperCase(Trim(d)))
             [] top.level = 2 -> BadAmount(d)
             [] OTHER -> FALSE
      [] a = "N" ->
           CASE top.level = 10 -> BadName(d, 3)
             [] top.level = 11 -> ~isValidUsername(Trim(d))
             [] top.level = 12 -> ~isValidEmail(Trim(d))
             [] top.level = 13 -> Len(Trim(d)) < 6
             [] top.level = 14 -> Trim(d) # Get(top, "password")
             [] top.level = 15 -> ~isValidDVLA(ToUpperCase(Trim(d)))
             [] top.level = 16 -> ~isValidGhanaCard(ToUpperCase(Trim(d)))
             [] OTHER -> FALSE
      [] OTHER ->
           CASE top.level = 10 -> BadName(d, 3)
             [] top.level = 11 -> ~isValidUsername(Trim(d))
             [] top.level = 12 -> ~isValidPhone(Trim(d))
             [] top.level = 13 -> ~isValidEmail(Trim(d))
             [] top.level = 14 -> Len(Trim(d)) < 6
             [] top.level = 15 -> Trim(d) # Get(top, "password")
             [] top.level = 16 -> ~isValidDVLA(ToUpperCase(Trim(d)))
             [] top.level = 17 -> ~isValidGhanaCard(ToUpperCase(Trim(d)))
             [] OTHER -> FALSE

\* the levels of the entries of a stack, bottom first
Levels(arr) == [i \in 1..Len(arr) |-> arr[i].level]

\* C6: in every handler and at every level that captures an input, an input that
\* fails the level's format validation leaves a stored stack that is no deeper than
\* the stack was and into which nothing was pushed: its levels are the levels the
\* stack had from the bottom up, or it is the one-entry stack of a Home reset
InvalidNeverAdvances ==
    [][(AnsweredLive /\ FailsFormat(app, ReadTop, last'.userData))
          => /\ Len(Stored(cache', heap', last'.sessionID)) <= Len(heap[ReadRef])
             /\ \/ Levels(Stored(cache', heap', last'.sessionID))
                      = SubSeq(Levels(heap[ReadRef]), 1, Len(Stored(cache', heap', last'.sessionID)))
                \/ Levels(Stored(cache', heap', last'.sessionID)) = <<0>>]_vars

\* PCRS has rejected a phone number and the phone step is still on top
PhoneRetried ==
    /\ app = "P"
    /\ last.kind = "invalid"
    /\ last.level = 12
    /\ cache[last.sessionID] # NoRef
    /\ Top(heap[cache[last.sessionID]]).level = 12

\* the identity-card number of a record: ghanaCard (GatePlus), ghanaCardNumber
CardOf(u) == IF "ghanaCard" \in DOMAIN u THEN u.ghanaCard ELSE Get(u, "ghanaCardNumber")

\* C7: in every handler, the repository never holds two Identity Records with the
\* same identity-card number
CardNumbersUnique ==
    \A i, j \in 1..Len(users) :
        (i # j /\ CardOf(users[i]) # Undefined) => CardOf(users[i]) # CardOf(users[j])

\* C8: in every handler, when a request of a live session is answered with
\* continueSession = false, the store holds no entry of its token afterwards
TerminalDeletes ==
    [][(AnsweredLive /\ ~last'.continueSession) => cache'[last'.sessionID] = NoRef]_vars

\* the value of field f in the topmost entry of the stack that carries it: the one
\* most recently accepted at the step of f
Accepted(arr, f) ==
    LET has == {i \in 1..Len(arr) : f \in DOMAIN arr[i]}
    IN  IF has = {} THEN Undefined ELSE arr[CHOOSE i \in has : \A j \in has : j <= i][f]

\* the fields of a record that earlier steps of the registration collected
CollectedFields ==
    CASE app = "G" -> {"fullName"}
      [] app = "N" -> {"name", "username", "email", "dvlaNumber"}
      [] OTHER -> {"name", "username", "phone", "email", "dvlaNumber"}

\* C9: in every handler, the record that the final registration step creates
\* carries, for each collected field, the value most recently accepted at the
\* field's step of the session (the password as its digest, the identity-card number
\* as just entered), and never the placeholder "Unknown"
RecordCarriesCollected ==
    [][\A r \in Slots :
          (Len(users') = Len(users) + 1 /\ reqs[r].pc \in {"g11_save", "n16_create", "p17_create"}
             /\ reqs'[r].pc # reqs[r].pc)
          => /\ \A f \in CollectedFields :
                   /\ users'[Len(users')][f] = Accepted(heap[reqs[r].userSession], f)
                   /\ users'[Len(users')][f] # S_Unknown
             /\ CardOf(users'[Len(users')]) = ToUpperCase(Trim(reqs[r].userData))
             /\ app # "G" => users'[Len(users')].password
                                = bcryptHash(Accepted(heap[reqs[r].userSession], "password"))]_vars

\* C10 as stated: in GatePlus at level 2, an input that is not a number or lies
\* outside 10..1000 creates no loan, leaves the depth and the top level as they
\* were, stores the range-error prompt in the top entry, and is answered with
\* continueSession = true
AmountRetriedAlways ==
    [][(AnsweredLive /\ app = "G" /\ ReadTop.level = 2 /\ BadAmount(last'.userData))
          => /\ loans' = loans
             /\ Len(Stored(cache', heap', last'.sessionID)) = Len(heap[ReadRef])
             /\ Top(Stored(cache', heap', last'.sessionID)).level = 2
             /\ Top(Stored(cache', heap', last'.sessionID)).message = G_AmountRange
             /\ last'.continueSession]_vars

\* C10: in GatePlus at level 2, an input that is not a number or lies outside
\* 10..1000 creates no loan; the request is answered either with the
\* service-unavailable message and continueSession = false, the entry deleted (a
\* repository call ahead of the range check failed), or with the range-error prompt
\* and continueSession = true, the prompt stored in the top entry and the depth and
\* the top level as they were
AmountRetried ==
    [][(AnsweredLive /\ app = "G" /\ ReadTop.level = 2 /\ BadAmount(last'.userData))
          => /\ loans' = loans
             /\ IF last'.message = G_Unavailable
                  THEN ~last'.continueSession /\ cache'[last'.sessionID] = NoRef
                ELSE /\ Len(Stored(cache', heap', last'.sessionID)) = Len(heap[ReadRef])
                     /\ Top(Stored(cache', heap', last'.sessionID)).level = 2
                     /\ Top(Stored(cache', heap', last'.sessionID)).message = G_AmountRange
                     /\ last'.message = G_AmountRange
                     /\ last'.continueSession]_vars

\* GatePlus has rejected the amount "5": no loan, and the prompt is on top
AmountRejected ==
    /\ app = "G"
    /\ last.kind = "invalid"
    /\ last.level = 2
    /\ last.userData = S_5
    /\ last.continueSession
    /\ loans = <<>>
    /\ cache[last.sessionID] # NoRef
    /\ Top(heap[cache[last.sessionID]]).message = G_AmountRange

\* the stack without its top entry
Popped(arr) == SubSeq(arr, 1, Len(arr) - 1)

\* C11: in every handler, input "0" on a live session is answered with
\* continueSession = true and leaves the one-entry stack of the home level, and input
\* "9" is answered with continueSession = true and leaves the stack without its top
\* entry (as it was, at depth 1): neither is taken as a menu choice or a field value,
\* and neither ends the session
NavigationKeysReserved ==
    [][(AnsweredLive /\ last'.userData \in {S_0, S_9})
          => /\ last'.continueSession
             /\ last'.userData = S_0
                   => Levels(Stored(cache', heap', last'.sessionID)) = <<0>>
             /\ last'.userData = S_9
                   => Stored(cache', heap', last'.sessionID)
                         = IF Len(heap[ReadRef]) > 1 THEN Popped(heap[ReadRef]) ELSE heap[ReadRef]]_vars

\* the repository u holds an Identity Record of subscriber m: GatePlus keys it by
\* msisdn, PCRS by the normalised phone
KnownSubscriber(a, u, m) ==
    IF a = "G" THEN \E i \in 1..Len(u) : u[i].msisdn = m
    ELSE \E i \in 1..Len(u) : Get(u[i], "phone") = normalizePhone(m)

\* entry e is the home menu of an identified subscriber
AuthenticatedHome(a, e) == IF a = "G" THEN e.level = 1 ELSE e.level = 0 /\ Flag(e, "loggedIn")

\* entry e is the first entry of a subscriber that was not identified
UnauthenticatedHome(a, e) == IF a = "G" THEN e.level = 10 ELSE e.level = 0 /\ ~Flag(e, "loggedIn")

\* C12: in GatePlus and PCRS, the segment of a newSession request that follows the
\* identity lookup stores a new stack of exactly one entry for the token, the
\* authenticated home entry if the repository holds a record of the subscriber at
\* that moment and the unauthenticated entry if it holds none, and the request is
\* answered with continueSession = true
SessionStartLooksUp ==
    [][\A r \in Slots :
          /\ ( /\ app \in {"G", "P"} /\ reqs[r].newSession
                /\ reqs[r].pc \in {"g_new_find", "p_new_find"}
                /\ reqs'[r].pc # reqs[r].pc )
                => /\ Len(Stored(cache', heap', reqs[r].sessionID)) = 1
                   /\ cache'[reqs[r].sessionID] # cache[reqs[r].sessionID]
                   /\ IF KnownSubscriber(app, users, reqs[r].msisdn)
                         THEN AuthenticatedHome(app, Stored(cache', heap', reqs[r].sessionID)[1])
                       ELSE UnauthenticatedHome(app, Stored(cache', heap', reqs[r].sessionID)[1])
          /\ ( /\ app \in {"G", "P"} /\ reqs[r].newSession
                /\ reqs[r].pc # "idle" /\ reqs'[r].pc = "idle" )
                => last'.status = 200 /\ last'.continueSession]_vars

\* the messages that tell the subscriber that the service failed
FailureMessages ==
    {G_Unavailable, N_Unavailable, P_Unavailable, Msg("Registration failed. Try again later."),
     Msg("Unable to fetch details at the moment.")}

\* C13: in every handler, a request whose repository call was rejected is answered
\* with a {message, continueSession} response that carries a failure message and
\* continueSession = false, and the store holds no entry of its token afterwards
RepositoryFailureTerminates ==
    [][(Answered /\ last'.rejected)
          => /\ last'.status = 200
             /\ last'.message \in FailureMessages
             /\ ~last'.continueSession
             /\ cache'[last'.sessionID] = NoRef]_vars

\* C14: in every handler, a request of a live session that is answered with
\* continueSession = true has called saveSession for its token.  cache.put is the only
\* call that restarts the 15 minutes of an entry, so an answer without it leaves the
\* entry to expire 15 minutes after the put before it, however recent the request
ContinuingTransitionRefreshes ==
    [][(AnsweredLive /\ last'.continueSession) => last'.sessionID \in last'.put]_vars

\* the card number that a lookup input stands for
CardTyped(d) == ToUpperCase(Trim(d))

\* the records of repository u whose identity-card number is c
HoldersOf(u, c) == {i \in 1..Len(u) : Get(u[i], "ghanaCardNumber") = c}

\* the summary that shows the stored values of record u themselves
StoredSummary(a, u) ==
    IF a = "N"
      THEN MsgA("Name: {0}\nUsername: {1}\nEmail: {2}\nDVLA: {3}\nGhanaCard: {4}",
                <<Get(u, "name"), Get(u, "username"), Get(u, "email"), Get(u, "dvlaNumber"),
                  Get(u, "ghanaCardNumber")>>)
    ELSE MsgA("Name: {0}\nUsername: {1}\nPhone: {2}\nEmail: {3}\nDVLA: {4}\nGhanaCard: {5}",
              <<Get(u, "name"), Get(u, "username"), Get(u, "phone"), Get(u, "email"),
                Get(u, "dvlaNumber"), Get(u, "ghanaCardNumber")>>)

\* a request of a live NCSTCS or PCRS session at the lookup step is answered, and
\* its input stands for the card number of a record that a registration stored
LookupOfRegistered ==
    /\ AnsweredLive /\ app \in {"N", "P"}
    /\ ReadTop.level = 30 /\ last'.userData \notin {S_0, S_9}
    /\ isValidGhanaCard(CardTyped(last'.userData))
    /\ HoldersOf(users, CardTyped(last'.userData)) # {}

\* C15 as stated: the lookup of a registered card number, typed in any letter case
\* and with spaces around it, is answered with the summary of the values that the
\* registration stored and continueSession = false, and the session is deleted
LookupShowsRegisteredAlways ==
    [][LookupOfRegistered
          => /\ \E i \in HoldersOf(users, CardTyped(last'.userData)) :
                   last'.message = StoredSummary(app, users[i])
             /\ ~last'.continueSession
             /\ cache'[last'.sessionID] = NoRef]_vars

\* C15: the lookup of a registered card number, typed in any letter case and with
\* spaces around it, ends the session (continueSession = false, entry deleted); it is
\* answered with the summary of the values that the registration stored, or, when
\* the repository rejected the lookup call, with the service-unavailable message
LookupShowsRegistered ==
    [][LookupOfRegistered
          => /\ IF last'.rejected THEN last'.message \in {N_Unavailable, P_Unavailable}
                ELSE \E i \in HoldersOf(users, CardTyped(last'.userData)) :
                        last'.message = StoredSummary(app, users[i])
             /\ ~last'.continueSession
             /\ cache'[last'.sessionID] = NoRef]_vars

\* PCRS started with an empty repository, a registration stored a record, and a
\* later session has looked its card number up, typed in mixed case between spaces
RegisteredThenFound ==
    /\ app = "P"
    /\ usersAtStart = <<>> /\ Len(users) = 1
    /\ last.kind = "found" /\ last.level = 30
    /\ last.userData = S_CardTyped
    /\ last.message = StoredSummary("P", users[1])
    /\ ~last.continueSession
    /\ cache[last.sessionID] = NoRef

\* the slots whose request runs a segment in this step
Acting == {r \in Slots : reqs'[r] # reqs[r]}

\* the token of the request that runs a segment in this step; "" when none does
ActingToken ==
    IF Arrived THEN CHOOSE t \in Tokens : asked'[t] # asked[t]
    ELSE IF Acting # {} THEN reqs[CHOOSE r \in Acting : TRUE].sessionID
    ELSE ""

\* the tokens whose entry the segment of this step, and the segments of the same
\* request before it, have written with cache.put
PutSoFar ==
    IF Answered THEN last'.put
    ELSE UNION {reqs'[r].put : r \in Acting}

\* a segment of a request leaves the entries of the other tokens alone: the same
\* array, with the same contents, and no cache.put that would restart its 15 minutes
OthersUntouched ==
    ActingToken # ""
       => /\ \A t \in Tokens \ {ActingToken} :
                /\ cache'[t] = cache[t]
                /\ Stored(cache', heap', t) = Stored(cache, heap, t)
          /\ PutSoFar \subseteq {ActingToken}

\* the first request that a token carries opens a session, and its lookup is over
FirstStart(r) ==
    /\ app \in {"G", "P"} /\ reqs[r].newSession
    /\ reqs[r].pc \in {"g_new_find", "p_new_find"}
    /\ asked[reqs[r].sessionID] = 1
    /\ cache'[reqs[r].sessionID] # cache[reqs[r].sessionID]

\* C16 as stated: a segment of a request on one token leaves the entries of the
\* other tokens alone, and a token's stack is the one its own requests alone
\* produce: the first request on a token, when it opens a session, stores the entry
\* that the repository as the process found it calls for, whatever the requests on
\* other tokens have done since
SessionsIndependent ==
    [][/\ OthersUntouched
       /\ \A r \in Slots :
             FirstStart(r)
                => (AuthenticatedHome(app, Top(Stored(cache', heap', reqs[r].sessionID)))
                      <=> /\ KnownSubscriber(app, usersAtStart, reqs[r].msisdn)
                          /\ ~(reqs'[r].pc = "idle" /\ last'.rejected))]_vars

\* C16: a segment of a request on one token never changes, replaces, deletes or
\* puts the entry of another token, under every interleaving of the requests
SessionsFramed == [][OthersUntouched]_vars

\* a request on token A has ended its session while token B holds a stack of two
\* entries or more, which is still stored
OtherSessionSurvives ==
    /\ last.sessionID = "A" /\ ~last.continueSession /\ last.status = 200
    /\ last.level >= 0
    /\ cache["A"] = NoRef
    /\ cache["B"] # NoRef
    /\ Len(heap[cache["B"]]) >= 2

\* the level of the home menu that a reset leads to
HomeLevel(a) == IF a = "G" THEN 1 ELSE 0

\* the home menu of handler a
HomeMenu(a) == CASE a = "G" -> G_Menu [] a = "N" -> N_Home [] OTHER -> P_Home

\* every stack that the handlers store has a handled level on top
TopLevelHandled ==
    \A t \in Tokens : cache[t] # NoRef /\ heap[cache[t]] # <<>>
                          => Top(heap[cache[t]]).level \in HandledLevels(app)

RejectionKinds == {"invalid", "mismatch", "conflict", "already", "notfound"}

\* C18: in every handler, a request of a live session whose input is rejected is
\* answered with continueSession = true and leaves the stack as it was but for the
\* message of the top entry, which is the error prompt that is returned: the same
\* depth, the same entries below the top, the same level and captured fields on top
RejectionRetriesInPlace ==
    [][(AnsweredLive /\ last'.kind \in RejectionKinds)
          => /\ last'.continueSession
             /\ Len(Stored(cache', heap', last'.sessionID)) = Len(heap[ReadRef])
             /\ Popped(Stored(cache', heap', last'.sessionID)) = Popped(heap[ReadRef])
             /\ Top(Stored(cache', heap', last'.sessionID))
                   = Spread(Top(heap[ReadRef]), [message |-> last'.message])]_vars

\* the level of the step that creates the Identity Record
FinalLevel(a) == CASE a = "G" -> 11 [] a = "N" -> 16 [] OTHER -> 17

\* C19: in every handler, a request that is answered with continueSession = true
\* (retry in place, Back, Home, advance, session start) leaves the Identity Records
\* and the Transaction Records as they were.  An Identity Record is created only by
\* a request that read the final registration level on top and whose input is a
\* valid card number, a Transaction Record only by a GatePlus request that read
\* level 2 and whose input is an amount in range; a request that has created a
\* record is answered with continueSession = false
RecordsOnlyAtFinalStep ==
    [][/\ (Answered /\ last'.continueSession) => users' = users /\ loans' = loans
       /\ Len(users') # Len(users)
             => /\ Len(users') = Len(users) + 1
                /\ \E r \in Acting :
                      /\ reqs[r].current.level = FinalLevel(app)
                      /\ isValidGhanaCard(CardTyped(reqs[r].userData))
       /\ loans' # loans
             => /\ Len(loans') = Len(loans) + 1
                /\ \E r \in Acting :
                      /\ app = "G" /\ reqs[r].current.level = 2
                      /\ ~BadAmount(reqs[r].userData)
       /\ \A r \in Resumed : reqs[r].pc \in {"g11_log", "g2_log"} => ~last'.continueSession]_vars

\* a username that a record holds has been refused, and the repository holds what it
\* held when the process started
ConflictLeavesRepository ==
    /\ last.kind = "conflict" /\ last.level = 11
    /\ last.continueSession
    /\ users # <<>>
    /\ users = usersAtStart
    /\ loans = <<>>

\* the field that the step pushing an entry of level l captures from the input
CapturedAt(a, l) ==
    IF a = "N"
      THEN CASE l = 11 -> {"name"} [] l = 12 -> {"username"} [] l = 13 -> {"email"}
             [] l = 14 -> {"password"} [] l = 16 -> {"dvlaNumber"} [] OTHER -> {}
    ELSE CASE l = 11 -> {"name"} [] l = 12 -> {"username"} [] l = 13 -> {"phone"}
           [] l = 14 -> {"email"} [] l = 15 -> {"password"} [] l = 17 -> {"dvlaNumber"}
           [] OTHER -> {}

\* no entry of the stack arr holds the value that entry e captured
CapturedGone(a, e, arr) ==
    \A f \in CapturedAt(a, e.level) \cap DOMAIN e :
        \A i \in 1..Len(arr) : Get(arr[i], f) # e[f]

\* C20: in NCSTCS and PCRS, input "9" on a live session whose stack has more than
\* one entry stores that stack without its top entry, is answered with the message
\* of the entry now on top and continueSession = true, and no entry of the stored
\* stack holds the value that the popped entry captured
BackDropsCaptured ==
    [][(AnsweredLive /\ app \in {"N", "P"} /\ last'.userData = S_9 /\ Len(heap[ReadRef]) > 1)
          => LET before == heap[ReadRef]
                 after == Stored(cache', heap', last'.sessionID)
             IN  /\ after = Popped(before)
                 /\ last'.continueSession
                 /\ last'.message = Top(after).message
                 /\ CapturedGone(app, Top(before), after)]_vars

\* the fields captured by the sign-up steps below level l
CarriedAt(a, l) == UNION {CapturedAt(a, k) : k \in 11..l}

\* the sign-up levels that hold captured fields
SignUpLevels(a) == IF a = "N" THEN 11..16 ELSE 11..17

\* the fields of an Identity Record that the final step reads from the top entry
ReadByFinalStep(a) == CarriedAt(a, FinalLevel(a))

\* C21: in NCSTCS and PCRS, with one request at a time, every entry of a stored
\* stack whose level is a sign-up level holds a defined value for every field that
\* the sign-up steps up to that level capture, and every Identity Record holds a
\* defined value for every field that the final step reads from the top entry
SignUpEntriesCarryFields ==
    (app \in {"N", "P"} /\ conc = 1)
        => /\ \A t \in Tokens :
                \A i \in 1..Len(Stored(cache, heap, t)) :
                    LET e == Stored(cache, heap, t)[i]
                    IN  e.level \in SignUpLevels(app)
                            => \A f \in CarriedAt(app, e.level) : Get(e, f) # Undefined
           /\ \A i \in 1..Len(users) :
                \A f \in ReadByFinalStep(app) : Get(users[i], f) # Undefined

\* one request at a time has led a session through a password mismatch to the
\* final sign-up step
FinalStepAfterMismatch ==
    /\ app \in {"N", "P"} /\ conc = 1
    /\ \E t \in Tokens :
          /\ Stored(cache, heap, t) # <<>>
          /\ Top(Stored(cache, heap, t)).level = FinalLevel(app)
          /\ \E i \in 1..Len(Stored(cache, heap, t)) :
                Stored(cache, heap, t)[i].message = Msg("Passwords do not match. Create Password:")

\* what the bottom entry e says about the subscriber: userSession[0]?.loggedIn, and
\* userSession[0]?.userRef of a logged-in session
SessionIdentity(e) ==
    [loggedIn |-> Flag(e, "loggedIn"),
     userRef |-> IF Flag(e, "loggedIn") /\ "userRef" \in DOMAIN e THEN e.userRef ELSE 0]

\* the levels of the PCRS sign-up flow
P_SignUpLevels == {5} \cup (10..17)

\* the step ends the initial transition of a session of token t
StartsSession(t) ==
    \E r \in Resumed : reqs[r].pc = "p_new_find" /\ reqs[r].sessionID = t

\* C22: in PCRS, a step that is not the initial transition of a session of token t
\* and that finds and leaves a stack stored for t leaves the loggedIn flag of its
\* bottom entry, and the userRef of a logged-in one, as they were; and a stored stack
\* that holds an entry of a sign-up level has a bottom entry that is not logged in
IdentityFixedAtStart ==
    [][app = "P" =>
         \A t \in Tokens :
            LET before == Stored(cache, heap, t)
                after == Stored(cache', heap', t)
            IN  /\ (before # <<>> /\ after # <<>> /\ ~StartsSession(t))
                      => SessionIdentity(after[1]) = SessionIdentity(before[1])
                /\ (after # <<>> /\ \E i \in 1..Len(after) : after[i].level \in P_SignUpLevels)
                      => ~Flag(after[1], "loggedIn")]_vars

\* the captured fields that a uniqueness check guards at their sign-up step
RacedFields(a) == IF a = "N" THEN {"username", "email", "dvlaNumber"}
                  ELSE {"username", "phone", "email", "dvlaNumber"}

\* the request in slot r is at User.create of the final sign-up step
AtCreate(r) == reqs[r].pc \in {"n16_create", "p17_create"}

\* a record of the repository holds a value that the request in slot r carries
\* in one of the raced fields
TakenMeanwhile(r) ==
    \E f \in RacedFields(app), i \in 1..Len(users) :
        /\ Get(reqs[r].current, f) # Undefined
        /\ Get(users[i], f) = Get(reqs[r].current, f)

\* no two records of u share a defined value of a raced field
NoSharedField(a, u) ==
    \A i, j \in 1..Len(u) :
        i # j => \A f \in RacedFields(a) :
                    Get(u[i], f) = Undefined \/ Get(u[i], f) # Get(u[j], f)

\* C23: in NCSTCS and PCRS, when a request of the final sign-up step gets to
\* User.create while a record holds the username, phone, email or license number
\* that its session had captured, it creates no Identity Record, the session entry
\* of its token is absent afterwards and it is answered with continueSession =
\* false; and no two Identity Records ever share one of these fields
RacedRegistrationFails ==
    [][(app = "N" \/ app = "P") =>
          /\ \A r \in Resumed :
                (AtCreate(r) /\ TakenMeanwhile(r))
                    => /\ users' = users
                       /\ cache'[reqs[r].sessionID] = NoRef
                       /\ last'.sessionID = reqs[r].sessionID
                       /\ last'.status = 200 /\ ~last'.continueSession
          /\ NoSharedField(app, users')]_vars

\* each of two sessions has sent its card number; one has created its record, and
\* the other, whose User.create was not rejected by a failure of the repository,
\* has been refused
SecondRegistrationRefused ==
    /\ app \in {"N", "P"}
    /\ asked = [t \in Tokens |-> 1]
    /\ Len(users) = 1 /\ usersAtStart = <<>>
    /\ last.kind = "createfail" /\ ~last.rejected
    /\ \A t \in Tokens : cache[t] = NoRef

\* C24: in GatePlus, when two requests of one token have read the same stack at
\* level 2 with the same valid amount and one of them has saved its Transaction
\* Record, the other one saves none
DoubleSubmitOneLoan ==
    [][\A r \in Acting, r2 \in Slots :
          ( /\ app = "G" /\ r # r2
            /\ reqs[r].pc = "g2_save" /\ reqs[r2].pc = "g2_log"
            /\ reqs[r].sessionID = reqs[r2].sessionID
            /\ reqs[r].userSession = reqs[r2].userSession
            /\ reqs[r].userData = reqs[r2].userData )
              => loans' = loans]_vars

\* the last response ended the session of token t and nothing has stored a stack
\* for t since
EndedSession(t) ==
    /\ last.sessionID = t /\ last.status = 200 /\ ~last.continueSession
    /\ cache[t] = NoRef

\* C25: in NCSTCS and PCRS, when a terminal response has ended the session of a
\* token, a request of that token that had read the stack before and resumes after
\* an await leaves the store without an entry for the token
NoStoreAfterTerminal ==
    [][\A r \in Resumed :
          ( /\ (app = "N" \/ app = "P")
            /\ EndedSession(reqs[r].sessionID)
            /\ ~reqs[r].newSession /\ reqs[r].userSession # NoRef )
              => cache'[reqs[r].sessionID] = NoRef]_vars

\* the step belongs to a /ussd request: one arrives, or one runs a segment
UssdStep == Arrived \/ Acting # {}

\* C26: in GatePlus, a step of a /ussd request leaves every existing Identity
\* Record as it was, and a record it adds has status pending_verification and is
\* added by the save of the registration final step; a step that changes a record
\* is no /ussd step, and it changes the record of one msisdn to status verified with
\* the verification stamp set and nothing else; the approve operation for an msisdn
\* without a record changes nothing
StatusOnlyByApprove ==
    [][app = "G" =>
          /\ UssdStep =>
                /\ Len(users') >= Len(users)
                /\ \A i \in 1..Len(users) : users'[i] = users[i]
                /\ \A i \in (Len(users) + 1)..Len(users') :
                      /\ users'[i].status = "pending_verification" /\ ~users'[i].verified
                      /\ \E r \in Acting : reqs[r].pc = "g11_save"
          /\ (\E i \in 1..Len(users) : i <= Len(users') /\ users'[i] # users[i]) =>
                /\ ~UssdStep
                /\ Len(users') = Len(users)
                /\ \E m \in Msisdns :
                      /\ G_findUser(World, m) # 0
                      /\ users' = [users EXCEPT ![G_findUser(World, m)] =
                                      [@ EXCEPT !.status = "verified", !.verified = TRUE]]
          /\ \A m \in Msisdns : G_findUser(World, m) = 0 => G_Approve(World, m) = World]_vars

\* a record that a registration of this run created has been approved
RegisteredThenApproved ==
    /\ app = "G" /\ usersAtStart = <<>>
    /\ \E i \in 1..Len(users) : users[i].status = "verified" /\ users[i].verified

\* the Identity Record of msisdn m is verified
Verified(u, m) == \E i \in 1..Len(u) : u[i].msisdn = m /\ u[i].status = "verified"

\* C27: in GatePlus, every Transaction Record belongs to an Identity Record of its
\* msisdn whose status is verified; a stored stack holds a level-2 entry, and a
\* request is at the save of the loan, only for a subscriber whose record is
\* verified; and option 1 at the home menu of a subscriber whose record is not
\* verified is answered with the under-review message and continueSession = false
\* and leaves the stored stack as it was
LoansOnlyForVerified ==
    [][app = "G" =>
          /\ \A i \in 1..Len(loans') :
                /\ loans'[i].userId \in 1..Len(users')
                /\ users'[loans'[i].userId].msisdn = loans'[i].msisdn
                /\ users'[loans'[i].userId].status = "verified"
          /\ \A t \in Tokens :
                (\E i \in 1..Len(Stored(cache', heap', t)) : Stored(cache', heap', t)[i].level = 2)
                    => Verified(users', owner[t])
          /\ \A r \in Slots : reqs'[r].pc = "g2_save" => Verified(users', reqs'[r].msisdn)
          /\ \A r \in Resumed :
                ( /\ reqs[r].pc = "g_menu_log" /\ reqs[r].current.level = 1
                  /\ reqs[r].userData = S_1 /\ reqs[r].ustatus # "verified"
                  /\ ~last'.rejected )
                    => /\ last'.message = Msg("Account under review. Please wait for approval.")
                       /\ last'.status = 200 /\ ~last'.continueSession
                       /\ cache' = cache
                       /\ \A t \in Tokens : Stored(cache', heap', t) = Stored(cache, heap, t)]_vars

\* a subscriber whose record was not verified when the process started holds a
\* Transaction Record
LoanAfterApproval ==
    /\ app = "G" /\ loans # <<>>
    /\ usersAtStart # <<>> /\ usersAtStart[1].status = "pending_verification"
    /\ usersAtStart[1].msisdn = loans[1].msisdn

\* C28: in GatePlus, every Transaction Record holds an amount that is a number
\* from 10 to 1000 and the status loan_pending, whatever string was sent at the
\* amount step
LoanAmountInRange ==
    app = "G" =>
        \A i \in 1..Len(loans) :
            /\ ~loans[i].amount.nan /\ ~loans[i].amount.inf
            /\ loans[i].amount.den > 0
            /\ 10 * loans[i].amount.den <= loans[i].amount.num
            /\ loans[i].amount.num <= 1000 * loans[i].amount.den
            /\ loans[i].status = "loan_pending"

\* the amount string 1e3 has been accepted and a Transaction Record of GHS 1000,
\* the upper end of the range, is stored
LoanAtUpperEnd ==
    /\ app = "G" /\ Len(loans) = 1
    /\ last.userData = <<"1", "e", "3">> /\ last.kind = "success"
    /\ loans[1].amount.num = 1000 * loans[1].amount.den


\* what the segment after `await logActivity' answers request q when the append
\* succeeds
G_AfterLogged(S, q) ==
    CASE q.pc = "g_new_log" -> G_NewAfterLog(S, q, TRUE).resp
      [] q.pc = "g11_log" -> G_RegAfterLog(S, q, TRUE).resp
      [] OTHER -> G_LoanAfterLog(S, q, TRUE).resp

\* C29: in GatePlus, when the logActivity call that follows the primary write of a
\* session start, a user creation or a loan creation is rejected, the records of
\* the repository stay and the response carries the message and continueSession
\* of the response sent when the append succeeds
LogFailureInvisible ==
    [][app = "G" =>
          \A r \in Resumed :
              (reqs[r].pc \in {"g_new_log", "g11_log", "g2_log"} /\ last'.rejected)
                  => /\ users' = users /\ loans' = loans
                     /\ last'.status = 200
                     /\ last'.message = G_AfterLogged(World, reqs[r]).message
                     /\ last'.continueSession = G_AfterLogged(World, reqs[r]).continueSession]_vars


\* no two Identity Records of u carry the same msisdn
OneRecordPerMsisdn(u) ==
    \A i, j \in 1..Len(u) : u[i].msisdn = u[j].msisdn => i = j

\* the requests whose segment after the existingUser lookup, or after the save,
\* runs in this step for a subscriber who has a record already
FinalStepOfRegistered ==
    {r \in Slots : /\ reqs[r].pc \in {"g11_find", "g11_save"}
                   /\ reqs'[r] # reqs[r]
                   /\ G_findUser(World, reqs[r].msisdn) # 0}

\* C30: in GatePlus, the repository never holds two Identity Records with the same
\* msisdn; the last registration step of a subscriber who has a record already,
\* also when the record was created by another session while this one was at its
\* last step, creates nothing, answers with continueSession = false and deletes
\* the session
OneIdentityPerMsisdn ==
    [][app = "G" =>
          /\ OneRecordPerMsisdn(users')
          /\ \A r \in FinalStepOfRegistered :
                /\ users' = users
                /\ reqs'[r].pc = "idle"
                /\ last'.sessionID = reqs[r].sessionID /\ last'.status = 200
                /\ ~last'.continueSession
                /\ cache'[reqs[r].sessionID] = NoRef]_vars

\* two sessions of one subscriber have each sent a valid card number and nothing
\* else; one record was created, and the other session's save was refused by the
\* repository although its existingUser lookup had found nothing
ConcurrentRegistrationRefused ==
    /\ app = "G" /\ owner["A"] = owner["B"]
    /\ asked["A"] = 1 /\ asked["B"] = 1 /\ nreq = 2
    /\ Len(users) = 1 /\ users[1].msisdn = owner["A"]
    /\ last.level = 11 /\ last.kind = "fail" /\ ~last.rejected /\ ~last.continueSession
    /\ cache[last.sessionID] = NoRef


\* the levels of the PCRS sign-up flow, in the order its steps push them
P_SignUpPath == <<0, 5, 10, 11, 12, 13, 14, 15, 16, 17>>

\* arr is the stack of a session of an unknown subscriber that has come some way
\* along the sign-up flow
P_OnSignUpPath(arr) ==
    /\ Len(arr) \in 1..Len(P_SignUpPath)
    /\ Levels(arr) = SubSeq(P_SignUpPath, 1, Len(arr))
    /\ ~Flag(arr[1], "loggedIn")

\* d is no navigation key, passes the validation of the step on top and, where the
\* step looks the value up, no record of repository S holds it
P_ValidUnused(S, top, d) ==
    /\ d \notin {S_0, S_9}
    /\ ~FailsFormat("P", top, d)
    /\ CASE top.level = 0 -> d = S_1
         [] top.level = 11 -> findOneBy(S, "username", Trim(d)) = 0
         [] top.level = 12 -> findOneBy(S, "phone", normalizePhone(Trim(d))) = 0
         [] top.level = 13 -> findOneBy(S, "email", Trim(d)) = 0
         [] top.level = 16 -> findOneBy(S, "dvlaNumber", ToUpperCase(Trim(d))) = 0
         [] top.level = 17 -> findOneBy(S, "ghanaCardNumber", ToUpperCase(Trim(d))) = 0
         [] OTHER -> TRUE

\* this step answers a request of the only session served, one request at a time,
\* that read a stack on the sign-up path and brought a valid and unused value
P_SignUpStep ==
    /\ app = "P" /\ conc = 1 /\ Cardinality(toks) = 1
    /\ AnsweredLive
    /\ P_OnSignUpPath(heap[ReadRef])
    /\ P_ValidUnused(World, ReadTop, last'.userData)

\* what the sign-up step does: the last one (the tenth input, on a stack of depth
\* 10) creates one record, deletes the session and answers with the success
\* message and continueSession = false; every earlier one answers with
\* continueSession = true and stores the stack one entry deeper, on the path
P_SignUpStepDone ==
    IF ReadTop.level = 17
      THEN /\ Len(heap[ReadRef]) = 10
           /\ Len(users') = Len(users) + 1 /\ SubSeq(users', 1, Len(users)) = users
           /\ cache'[last'.sessionID] = NoRef
           /\ last'.kind = "success" /\ ~last'.continueSession
           /\ last'.message = Msg("Registration successful!\n\nAn SMS will be sent to your phone shortly. Please follow the link in the SMS to upload your:\n DVLA License\n Ghana Card")
    ELSE /\ last'.continueSession
         /\ users' = users
         /\ Len(Stored(cache', heap', last'.sessionID)) = Len(heap[ReadRef]) + 1
         /\ P_OnSignUpPath(Stored(cache', heap', last'.sessionID))

\* a new session of a subscriber without a record starts the path: one entry, at
\* level 0, not logged in, continueSession = true
P_SignUpStart ==
    (app = "P" /\ Answered /\ last'.newSession /\ last'.status = 200
        /\ findOneBy(World, "phone", normalizePhone(owner[last'.sessionID])) = 0)
        => /\ last'.continueSession
           /\ Len(Stored(cache', heap', last'.sessionID)) = 1
           /\ P_OnSignUpPath(Stored(cache', heap', last'.sessionID))

PasswordLevel(a) == IF a = "N" THEN 13 ELSE 14

ConfirmLevel(a) == PasswordLevel(a) + 1

MismatchMessage == Msg("Passwords do not match. Create Password:")

\* this step answers a request that read the confirmation step on top and brought
\* an input, other than a navigation key, that differs from the stored password
MismatchStep ==
    /\ (app = "N" \/ app = "P")
    /\ AnsweredLive
    /\ ReadTop.level = ConfirmLevel(app)
    /\ last'.userData \notin {S_0, S_9}
    /\ Trim(last'.userData) # Get(ReadTop, "password")

\* the requests whose User.create adds a record in this step
Creating == {r \in Resumed : AtCreate(r) /\ Len(users') = Len(users) + 1}

\* C32: in NCSTCS and PCRS, a confirmation input that differs from the stored
\* password leaves the stored stack one entry shorter, with the password step on
\* top, carrying the mismatch message and no password field, and is answered with
\* that message and continueSession = true; and a record created from a stack that
\* holds an entry marked by a mismatch carries the (hashed) password of the entry
\* pushed on that one, the password entered after the mismatch
MismatchReturnsToPassword ==
    [][/\ MismatchStep =>
             /\ Len(Stored(cache', heap', last'.sessionID)) = Len(heap[ReadRef]) - 1
             /\ Len(heap[ReadRef]) >= 2
             /\ Top(Stored(cache', heap', last'.sessionID)).level = PasswordLevel(app)
             /\ Top(Stored(cache', heap', last'.sessionID)).message = MismatchMessage
             /\ Get(Top(Stored(cache', heap', last'.sessionID)), "password") = Undefined
             /\ last'.message = MismatchMessage
             /\ last'.continueSession
             /\ users' = users
       /\ \A r \in Creating :
             \A i \in 1..Len(heap[reqs[r].userSession]) :
                 heap[reqs[r].userSession][i].message = MismatchMessage
                     => /\ i < Len(heap[reqs[r].userSession])
                        /\ heap[reqs[r].userSession][i + 1].level = ConfirmLevel(app)
                        /\ users'[Len(users')].password
                              = bcryptHash(Get(heap[reqs[r].userSession][i + 1], "password"))]_vars

\* a confirmation that differs from the stored password has just been answered:
\* the password step is on top again, marked by the mismatch message
BackAtPasswordStep ==
    /\ (app = "N" \/ app = "P")
    /\ last.level = ConfirmLevel(app) /\ last.userData \notin {S_0, S_9}
    /\ last.message = MismatchMessage /\ last.continueSession
    /\ Stored(cache, heap, last.sessionID) # <<>>
    /\ Top(Stored(cache, heap, last.sessionID)).level = PasswordLevel(app)
    /\ Top(Stored(cache, heap, last.sessionID)).message = MismatchMessage


\* the depth of the deepest stack of PCRS: the home menu, the info screen and the
\* eight sign-up steps
P_MaxDepth == Cardinality({0, 5} \cup (10..17))

\* arr has the home menu at its bottom, strictly increasing levels that the switch
\* has a case for, and no more than P_MaxDepth entries
P_WellFormed(arr) ==
    /\ Len(arr) \in 1..P_MaxDepth
    /\ arr[1].level = 0
    /\ \A i \in 1..Len(arr) : arr[i].level \in HandledLevels("P")
    /\ \A i, j \in 1..Len(arr) : i < j => arr[i].level < arr[j].level

\* C33: in PCRS with requests served one at a time, every stack that a step leaves
\* stored is well formed (level 0 at the bottom, strictly increasing levels with a
\* case of the switch, at most ten entries), and no request of a live session
\* reads a top level without a case or is answered by the default branch
StacksWellFormed ==
    [][(app = "P" /\ conc = 1) =>
          /\ \A t \in Tokens : cache'[t] # NoRef => P_WellFormed(heap'[cache'[t]])
          /\ AnsweredLive => /\ ReadTop.level \in HandledLevels("P")
                             /\ last'.kind # "reset"]_vars

\* one request at a time has taken a PCRS session to the deepest stack: ten
\* entries, the Ghana Card step on top
DeepestStack ==
    /\ app = "P" /\ conc = 1
    /\ Len(Stored(cache, heap, "A")) = P_MaxDepth
    /\ Levels(Stored(cache, heap, "A")) = P_SignUpPath


\* the digits of string p, in their order
DigitsOf(p) == SelectSeq(p, LAMBDA c : c \in Digit)

\* "+233" followed by the last nine digits of p
Canonical(p) ==
    <<"+", "2", "3", "3">> \o SubSeq(DigitsOf(p), Len(DigitsOf(p)) - 8, Len(DigitsOf(p)))

\* the local form, the 233 form and the +233 form of the subscriber number of p
FormsOf(p) ==
    LET n == SubSeq(DigitsOf(p), Len(DigitsOf(p)) - 8, Len(DigitsOf(p)))
    IN  {<<"0">> \o n, <<"2", "3", "3">> \o n, <<"+", "2", "3", "3">> \o n}

\* C34: for every string p that isValidPhone accepts, normalizePhone(p) is "+233"
\* followed by the last nine digits of p, normalizing it again changes nothing, and
\* the three forms of its subscriber number are accepted and normalize to that
\* value; the phone step of PCRS looks up and stores that value, so that it answers
\* a phone conflict exactly when a record holds the number in whatever form, and
\* pushes the canonical value otherwise
PhoneCanonical ==
    [][app = "P" =>
          /\ \A r \in Slots :
                (reqs'[r].pc = "p12_find" \/ isValidPhone(reqs'[r].userData)) =>
                    /\ isValidPhone(reqs'[r].userData)
                    /\ normalizePhone(reqs'[r].userData) = Canonical(reqs'[r].userData)
                    /\ normalizePhone(normalizePhone(reqs'[r].userData))
                          = normalizePhone(reqs'[r].userData)
                    /\ \A f \in FormsOf(reqs'[r].userData) :
                          /\ isValidPhone(f)
                          /\ normalizePhone(f) = normalizePhone(reqs'[r].userData)
                    /\ reqs'[r].pc = "p12_find" => reqs'[r].val = Canonical(reqs'[r].userData)
          /\ \A r \in Resumed :
                (reqs[r].pc = "p12_find" /\ ~last'.rejected) =>
                    IF \E i \in 1..Len(users) : Get(users[i], "phone") = Canonical(reqs[r].userData)
                      THEN /\ last'.kind = "conflict" /\ users' = users
                           /\ Top(Stored(cache', heap', last'.sessionID)).level = 12
                    ELSE /\ last'.kind = "advance"
                         /\ Top(Stored(cache', heap', last'.sessionID)).level = 13
                         /\ Top(Stored(cache', heap', last'.sessionID)).phone
                               = Canonical(reqs[r].userData)]_vars

\* the record holds the number in the +233 form, the subscriber has typed it in
\* the local form, and the phone step has answered "already registered"
LocalFormConflicts ==
    /\ app = "P" /\ users # <<>>
    /\ last.level = 12 /\ last.kind = "conflict"
    /\ Trim(last.userData)[1] = "0"
    /\ users[1].phone[1] = "+"

=============================================================================
